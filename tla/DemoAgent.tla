----------------------------- MODULE DemoAgent -----------------------------
(***************************************************************************)
(* The research agent of the demo, the scripts with which its owner and    *)
(* external content write to its memory, and the two things the agent      *)
(* keeps outside the memory: state.json and the evidence packages.         *)
(*                                                                         *)
(* The agent and each script are processes of their own.  Each reads the   *)
(* memory in one call, thinks, and writes in later ones, so the memory may *)
(* have grown or been edited in between.  The memory is the ledger of      *)
(* module Ledger seen from outside: a call to `remember` appends one entry *)
(* or, if another process commits at that moment, is refused.              *)
(*                                                                         *)
(* Entries are ordered by createdAt where the code sorts them; the model   *)
(* takes the clock not to go back between two commits.                     *)
(***************************************************************************)
EXTENDS Integers, Sequences, FiniteSets

CONSTANTS
  Script,        \* the scripts that run side by side
  SourcesV1,     \* SOURCES_V1, a sequence
  Addition,      \* SOURCE_V2_ADDITION
  Window,        \* the limit of `chain` and `export` (200 in the code)
  KeepCycles,    \* cycles kept in state.json (50 in the code)
  KeepPackages,  \* packages listed in state.json (20 in the code)
  Conflicts,     \* whether a call to remember may be refused
  Kills,         \* whether the agent may be killed
  MaxCommands,   \* bound of the model on the commands given to scripts
  MaxRounds      \* bound of the model on the cycles run

ASSUME AgentAssumption ==
  /\ SourcesV1 \in Seq(STRING)
  /\ Addition \in STRING
  /\ IsFiniteSet(Script)
  /\ {Window, KeepCycles, KeepPackages} \subseteq Nat \ {0}
  /\ {Conflicts, Kills} \subseteq BOOLEAN
  /\ {MaxCommands, MaxRounds} \subseteq Nat

VARIABLES
  memory,    \* the entries, in order
  edited,    \* length of the memory when tamper.py ran, 0 if it did not
  agent,     \* the agent's process
  script,    \* per script, the entry it is about to write, if any
  saved,     \* state.json: number of cycles kept, packages listed
  evidence,  \* demo/evidence: the package in each file
  round,     \* history: cycles begun so far, over all agent processes
  during     \* history: the round under way when tamper.py ran, 0 if none was

agentVars == <<memory, edited, agent, script, saved, evidence, round, during>>

Least(m, n) == IF m < n THEN m ELSE n

LastOf(s, n) == SubSeq(s, Len(s) - Least(n, Len(s)) + 1, Len(s))

-----------------------------------------------------------------------------
(* Entries.  `round` is 0 unless the agent writes; `seen` is the length of  *)
(* the memory at the reading that its writer acted on.  Both are history.  *)

Entry(type, version, sources, rnd, seen) ==
  [type |-> type, version |-> version, sources |-> sources,
   round |-> rnd, seen |-> seen]

Policies    == {"policy_created", "policy_updated"}
\* Approvals and rejections have the same effect: both are this type.
Resolutions == {"owner_resolution"}
Research    == {"source_selected", "source_visited", "brief_generated"}

ScriptTypes == Resolutions \cup {"policy_updated", "action_requested"}

EntryTypes == Policies \cup ScriptTypes \cup Research
                \cup {"agent_charter", "agent_created", "cycle_evaluated",
                       "unauthorized"}

Charter == Entry("agent_charter", 0, << >>, 0, 0)

Created == Entry("agent_created", 0, << >>, 0, 0)

PolicyV1 == Entry("policy_created", 1, SourcesV1, 0, 0)

\* What a reader gets: the first entries, by getChain's ascending order.
Visible == SubSeq(memory, 1, Least(Len(memory), Window))

NoPolicy == Entry("none", 0, << >>, 0, 0)

Positions(events, types) == {i \in 1 .. Len(events) : events[i].type \in types}

Last(S) == CHOOSE i \in S : \A j \in S : j <= i

\* Mutant: the policy the agent began with.
LatestPolicyFirst(events) ==
  LET found == Positions(events, Policies)
  IN  IF found = {} THEN NoPolicy
      ELSE events[CHOOSE i \in found : \A j \in found : i <= j]

LatestPolicy(events) ==
  LET found == Positions(events, Policies)
  IN  IF found = {} THEN NoPolicy ELSE events[Last(found)]

\* Mutant: any resolution, of an earlier request too, will do.
PendingOwnerRequestOnce(events) ==
  /\ Positions(events, {"action_requested"}) # {}
  /\ Positions(events, Resolutions) = {}

PendingOwnerRequest(events) ==
  LET requests == Positions(events, {"action_requested"})
  IN  /\ requests # {}
      /\ \A i \in Positions(events, Resolutions) : i < Last(requests)

\* Mutant: the owner's affairs come before the integrity of the memory.
EvaluateCycleLate(valid, events) ==
  IF LatestPolicy(events) = NoPolicy \/ PendingOwnerRequest(events)
    THEN "WAIT_FOR_OWNER"
  ELSE IF ~valid THEN "STOP_BY_INTEGRITY" ELSE "EXECUTE"

EvaluateCycle(valid, events) ==
  IF ~valid THEN "STOP_BY_INTEGRITY"
  ELSE IF LatestPolicy(events) = NoPolicy \/ PendingOwnerRequest(events)
    THEN "WAIT_FOR_OWNER"
  ELSE "EXECUTE"

-----------------------------------------------------------------------------
(* The agent.                                                              *)

\* The entries runResearch writes: two per source, then the brief.
ResearchEntries(sources, rnd, seen) ==
  [k \in 1 .. 2 * Len(sources) + 1 |->
     IF k > 2 * Len(sources)
       THEN Entry("brief_generated", 0, sources, rnd, seen)
       ELSE Entry(IF k % 2 = 1 THEN "source_selected" ELSE "source_visited",
                  0, <<sources[(k + 1) \div 2]>>, rnd, seen)]

WaitEntry(rnd, seen) == Entry("cycle_evaluated", 0, << >>, rnd, seen)

Batch(decision, sources, rnd, seen) ==
  CASE decision = "EXECUTE"           -> ResearchEntries(sources, rnd, seen)
    [] decision = "WAIT_FOR_OWNER"    -> <<WaitEntry(rnd, seen)>>
    [] decision = "STOP_BY_INTEGRITY" -> << >>

Idle == [pc |-> "idle", cycle |-> 0, valid |-> TRUE, decision |-> "NONE",
         todo |-> << >>, failed |-> FALSE]

\* demo/evidence/<cycle>_<decision>.eco
File(cycle, decision) == <<cycle, decision>>

Package(cycle, decision, rnd) ==
  [file |-> File(cycle, decision), decision |-> decision, round |-> rnd,
   length |-> Len(memory)]

\* Before setup.mjs, or after it: charter, policy and the package of cycle 0.
AgentInit ==
  /\ \/ /\ memory = << >>
        /\ saved = [cycles |-> 0, packages |-> << >>]
        /\ evidence = << >>
     \/ LET ready == Package(0, "IDLE", 0)
        IN  /\ memory = <<Charter, Created, PolicyV1>>
            /\ saved = [cycles |-> 0, packages |-> <<ready>>]
            /\ evidence = [f \in {ready.file} |-> ready]
  /\ edited = 0
  /\ agent = Idle
  /\ script = [s \in Script |-> << >>]
  /\ round = 0
  /\ during = 0

Goto(pc) == agent' = [agent EXCEPT !.pc = pc]

\* Who has a call to remember under way.
Staged == {s \in Script : script[s] # << >>}

Writing == agent.pc = "remember" /\ agent.todo # << >>

\* Mutant: every process numbers its cycles from 1.
CycleNumberAnew(state) == 1

CycleNumber(state) == state.cycles + 1

StartAgent ==
  /\ agent.pc = "idle"
  /\ round < MaxRounds
  /\ agent' = [Idle EXCEPT !.pc = "chain", !.cycle = CycleNumber(saved)]
  /\ UNCHANGED <<memory, edited, script, saved, evidence, round, during>>

\* The two calls of readMemoryState: first `chain` ...
ReadChain ==
  /\ agent.pc = "chain"
  /\ round' = round + 1
  /\ agent' = [agent EXCEPT !.pc = "export", !.valid = (edited = 0)]
  /\ UNCHANGED <<memory, edited, script, saved, evidence, during>>

\* ... then `export`, on which the decision is taken.
ReadExport ==
  LET events   == Visible
      decision == EvaluateCycle(agent.valid, events)
      sources  == LatestPolicy(events).sources
  IN  /\ agent.pc = "export"
      /\ agent' = [agent EXCEPT
                     !.pc = "remember",
                     !.decision = decision,
                     !.todo = Batch(decision, sources, round, Len(memory))]
      /\ UNCHANGED <<memory, edited, script, saved, evidence, round, during>>

AgentRemember ==
  \E losers \in SUBSET Staged :
    /\ Writing
    /\ losers # {} => Conflicts
    /\ memory' = Append(memory, Head(agent.todo))
    /\ agent' = [agent EXCEPT !.todo = Tail(@)]
    /\ script' = [s \in Script |-> IF s \in losers THEN << >> ELSE script[s]]
    /\ UNCHANGED <<edited, saved, evidence, round, during>>

\* Mutant: the errors of a batch are not looked at.
BatchThrowsNever == FALSE

\* callTools throws after the batch if one call of it failed.
BatchThrows == agent.failed

\* The process ends with that error: no package, no state.json.
AgentThrows ==
  /\ agent.pc = "remember" /\ agent.todo = << >>
  /\ BatchThrows
  /\ agent' = Idle
  /\ UNCHANGED <<memory, edited, script, saved, evidence, round, during>>

\* createEvidencePackage: its own `export`, and the file.
WritePackage ==
  LET package == Package(agent.cycle, agent.decision, round)
  IN  /\ agent.pc = "remember" /\ agent.todo = << >>
      /\ ~BatchThrows
      /\ evidence' = [f \in DOMAIN evidence \cup {package.file} |->
                        IF f = package.file THEN package ELSE evidence[f]]
      /\ Goto("save")
      /\ UNCHANGED <<memory, edited, script, saved, round, during>>

\* Mutant: the cycles are cut before this one is added.
CyclesKeptLate(n) == Least(n, KeepCycles) + 1

CyclesKept(n) == Least(n + 1, KeepCycles)

\* writeFileSync of state.json, and the next cycle or the end of the process.
SaveState ==
  /\ agent.pc = "save"
  /\ saved' = [cycles   |-> CyclesKept(saved.cycles),
               packages |-> LastOf(Append(saved.packages,
                              evidence[File(agent.cycle, agent.decision)]),
                              KeepPackages)]
  /\ \/ agent' = Idle
     \/ /\ agent.decision # "STOP_BY_INTEGRITY"
        /\ round < MaxRounds
        /\ agent' = [Idle EXCEPT !.pc = "chain", !.cycle = agent.cycle + 1]
  /\ UNCHANGED <<memory, edited, script, evidence, round, during>>

Kill ==
  /\ Kills
  /\ agent.pc # "idle"
  /\ agent' = Idle
  /\ UNCHANGED <<memory, edited, script, saved, evidence, round, during>>

-----------------------------------------------------------------------------
(* The scripts.                                                            *)

\* Commands given: the entries of scripts, those under way, and tamper.py.
Commands == Cardinality(Positions(memory, ScriptTypes)) + Cardinality(Staged)
              + (IF edited = 0 THEN 0 ELSE 1)

Stage(s, entry) ==
  /\ script[s] = << >>
  /\ Commands < MaxCommands
  /\ script' = [script EXCEPT ![s] = <<entry>>]
  /\ UNCHANGED <<memory, edited, agent, saved, evidence, round, during>>

\* owner-approve.mjs and owner-reject.mjs, up to their call to remember; with
\* nothing pending they end.
OwnerReads(s) ==
  /\ PendingOwnerRequest(Visible)
  /\ Stage(s, Entry("owner_resolution", 0, << >>, 0, Len(memory)))

\* authorized-source-update.mjs, up to its call to remember.
UpdateReads(s) ==
  LET policy == LatestPolicy(Visible)
  IN  Stage(s, Entry("policy_updated", policy.version + 1,
                     Append(policy.sources, Addition), 0, Len(memory)))

\* prompt-injection.mjs reads nothing.
Inject(s) == Stage(s, Entry("action_requested", 0, << >>, 0, 0))

\* Of the calls to remember that meet a commit SQLite refuses any.  A script ends
\* with that error; the agent's runToolBatch keeps it and goes on with the batch.
Refused(losers, agentLoses) ==
  /\ losers # {} \/ agentLoses => Conflicts
  /\ agentLoses => Writing
  /\ agent' = IF agentLoses
                THEN [agent EXCEPT !.todo = Tail(@), !.failed = TRUE]
                ELSE agent

ScriptRemember(s) ==
  \E losers \in SUBSET (Staged \ {s}), agentLoses \in BOOLEAN :
    /\ s \in Staged
    /\ Refused(losers, agentLoses)
    /\ memory' = memory \o script[s]
    /\ script' = [t \in Script |->
                    IF t \in losers \cup {s} THEN << >> ELSE script[t]]
    /\ UNCHANGED <<edited, saved, evidence, round, during>>

\* tamper.py: the first entry is no event of the demo any more.  It commits to
\* the same file.
Tamper ==
  \E losers \in SUBSET Staged, agentLoses \in BOOLEAN :
    /\ edited = 0 /\ memory # << >>
    /\ Commands < MaxCommands
    /\ Refused(losers, agentLoses)
    /\ memory' = [memory EXCEPT ![1].type = "unauthorized"]
    /\ edited' = Len(memory)
    /\ during' = IF agent.pc \in {"export", "remember"} THEN round ELSE 0
    /\ script' = [t \in Script |-> IF t \in losers THEN << >> ELSE script[t]]
    /\ UNCHANGED <<saved, evidence, round>>

AgentNext ==
  \/ StartAgent \/ ReadChain \/ ReadExport
  \/ AgentRemember \/ AgentThrows
  \/ WritePackage \/ SaveState \/ Kill
  \/ \E s \in Script :
       OwnerReads(s) \/ UpdateReads(s) \/ Inject(s) \/ ScriptRemember(s)
  \/ Tamper

AgentSpec == AgentInit /\ [][AgentNext]_agentVars

-----------------------------------------------------------------------------

Entries == [type : EntryTypes, version : Nat,
            sources : Seq(STRING), round : Nat, seen : Nat]

PackageOK(p) ==
  /\ p.file \in Nat \X {p.decision}
  /\ p.decision \in {"IDLE", "EXECUTE", "WAIT_FOR_OWNER", "STOP_BY_INTEGRITY"}
  /\ p.round \in 0 .. round
  /\ p.length \in 0 .. Len(memory)

\* Every variable has its type; state.json keeps at most what it says.
AgentTypeOK ==
  /\ memory \in Seq(Entries)
  /\ edited \in 0 .. Len(memory)
  /\ agent.pc \in {"idle", "chain", "export", "remember", "save"}
  /\ agent.todo \in Seq(Entries)
  /\ script \in [Script -> {<< >>} \cup Seq(Entries)]
  /\ saved.cycles \in 0 .. KeepCycles
  /\ Len(saved.packages) <= KeepPackages
  /\ \A i \in 1 .. Len(saved.packages) : PackageOK(saved.packages[i])
  /\ \A f \in DOMAIN evidence : PackageOK(evidence[f])

\* How many entries the writer of an entry had got when it decided to write it.
Got(entry) == Least(entry.seen, Window)

\* The agent does research over a request only after a resolution of it, given
\* by an owner who had read that request, or a later one, and had found it
\* pending.  Only a request recorded while an owner decided on an earlier one
\* goes through unread: the code takes it for resolved.
OwnerReviewed ==
  \A k \in Positions(memory, Research) :
    \A i \in Positions(SubSeq(memory, 1, Got(memory[k])), {"action_requested"}) :
      \E j \in i + 1 .. Got(memory[k]) :
        /\ memory[j].type \in Resolutions
        /\ \E h \in 1 .. Got(memory[j]) :
             /\ memory[h].type \in {"action_requested", "unauthorized"}
             /\ \A l \in h + 1 .. Got(memory[j]) : memory[l].type \notin Resolutions
             /\ i <= h \/ Got(memory[j]) < i

\* An update of the policy is lost only to one that overlaps it, which read the
\* memory before that update was in it (or too late to get it: only the first
\* Window entries are read).  Any other policy is the one before it with one
\* more source, whatever the agent and the other scripts write in between, and
\* whatever SQLite refuses.
LostOnlyToOverlap ==
  \A i, j \in Positions(memory, Policies) :
    /\ i < j /\ Positions(SubSeq(memory, i + 1, j - 1), Policies) = {}
    /\ i <= Got(memory[j])
    => /\ memory[j].version = memory[i].version + 1
       /\ memory[j].sources = Append(memory[i].sources, Addition)

\* After the memory was edited the agent writes nothing but what is left of the
\* batch of the cycle under way at that moment: no cycle that begins later
\* writes an entry, nor does that one if it had not found the memory valid.
EditEndsWriting ==
  edited # 0 =>
    \A i \in edited + 1 .. Len(memory) : memory[i].round \in {0, during}

\* An entry of this round is among the first n; the entry tamper.py overwrote
\* counts as what it was.
Recorded(type, source, rnd, n) ==
  \E i \in 1 .. n :
    /\ memory[i].round = rnd
    /\ memory[i].type \in {type, "unauthorized"}
    /\ memory[i].sources = source

\* A package listed in state.json holds every step of its cycle: the decision
\* to wait, or the brief with the selection and the visit of each of its
\* sources.  A cycle that lost a step to a refused call, or was killed, is
\* never listed.
ListedIsComplete ==
  \A n \in 1 .. Len(saved.packages) :
    LET p == saved.packages[n]
    IN  /\ p.decision = "WAIT_FOR_OWNER" =>
             Recorded("cycle_evaluated", << >>, p.round, p.length)
        /\ p.decision = "EXECUTE" =>
             \E i \in Positions(SubSeq(memory, 1, p.length), {"brief_generated"}) :
               /\ memory[i].round = p.round
               /\ \A k \in 1 .. Len(memory[i].sources) :
                    \A type \in {"source_selected", "source_visited"} :
                      Recorded(type, <<memory[i].sources[k]>>, p.round, p.length)

\* The file of a package that state.json lists is that package, up to the
\* number where state.json begins to forget cycles: neither a restart nor a
\* cycle that was cut short uses a listed number again.
ListedIsOnDisk ==
  \A n \in 1 .. Len(saved.packages) :
    LET p == saved.packages[n]
    IN  p.file[1] <= KeepCycles => evidence[p.file] = p

\* agent-loop.mjs:15: "a sensitive action was requested without owner
\* authorization. The agent holds, does not research, and waits".  No research
\* is done over a request that nobody has resolved.
RequestsHold ==
  \A k \in Positions(memory, Research) :
    \A i \in Positions(SubSeq(memory, 1, memory[k].seen), {"action_requested"}) :
      Positions(SubSeq(memory, i + 1, memory[k].seen), Resolutions) # {}

=============================================================================
