---------------------------- MODULE AgentProofs ----------------------------
(***************************************************************************)
(* Proofs about the demo: for any window, any number of cycles, commands   *)
(* and scripts side by side, any refusals of SQLite and any deaths of the  *)
(* agent.                                                                  *)
(***************************************************************************)
EXTENDS DemoAgent, SequenceTheorems, WellFoundedInduction, TLAPS

-----------------------------------------------------------------------------
(* The operators *)

\* A set of positions that is not empty has a greatest one.
LEMMA LastIsGreatest ==
  ASSUME NEW n \in Nat, NEW S \in SUBSET (1 .. n), S # {}
  PROVE  Last(S) \in S /\ \A i \in S : i <= Last(S)
<1> DEFINE Less == {ss \in Nat \X Nat : ss[1] < ss[2]}
           Above == {k \in Nat : n - k \in S}
<1>1. IsWellFoundedOn(Less, Nat)
  BY NatLessThanWellFounded DEF OpToRel
<1>2. Above \in SUBSET Nat /\ Above # {}
  <2>1. \A i \in S : n - i \in Nat /\ n - (n - i) = i
    OBVIOUS
  <2> QED BY <2>1
<1>3. PICK m \in Above : \A k \in Above : <<k, m>> \notin Less
  <2> HIDE DEF Less, Above
  <2> QED BY <1>1, <1>2, WFMin
<1>4. \A k \in Above : m <= k
  <2>1. \A k \in Above : ~ (k < m)
    <3>1. \A k \in Above : <<k, m>> \in Nat \X Nat
      BY <1>2
    <3> QED BY <1>3, <3>1
  <2> QED BY <1>2, <2>1
<1>5. PICK j \in S : m = n - j
  <2>1. n - m \in S /\ m = n - (n - m)
    BY <1>2
  <2> QED BY <2>1
<1>6. \A i \in S : i <= j
  <2>1. SUFFICES ASSUME NEW i \in S PROVE i <= j
    OBVIOUS
  <2>2. n - j <= n - i
    <3>1. n - i \in Above
      <4>1. n - i \in Nat /\ n - (n - i) = i
        OBVIOUS
      <4> QED BY <4>1
    <3> QED BY <3>1, <1>4, <1>5
  <2>3. i \in Int /\ j \in Int
    OBVIOUS
  <2> QED BY <2>2, <2>3
<1>7. \E i \in S : \A k \in S : k <= i
  BY <1>6
<1> QED BY <1>7 DEF Last

LEMMA LeastIsMinimum ==
  ASSUME NEW m \in Nat, NEW n \in Nat
  PROVE  Least(m, n) \in Nat /\ Least(m, n) <= m /\ Least(m, n) <= n
BY DEF Least

\* The first n of a sequence.
LEMMA FirstOnes ==
  ASSUME NEW S, NEW s \in Seq(S), NEW n \in 0 .. Len(s)
  PROVE  /\ SubSeq(s, 1, n) \in Seq(S)
         /\ Len(SubSeq(s, 1, n)) = n
         /\ \A i \in 1 .. n : SubSeq(s, 1, n)[i] = s[i]
<1>1. \A i \in 1 .. n : s[i] \in S
  OBVIOUS
<1> QED BY <1>1, SubSeqProperties

LEMMA FirstPositions ==
  ASSUME NEW S, NEW s \in Seq(S), NEW n \in 0 .. Len(s), NEW types
  PROVE  Positions(SubSeq(s, 1, n), types) = {i \in 1 .. n : s[i].type \in types}
BY FirstOnes DEF Positions

\* The last n of a sequence are some of its elements, in particular its last.
LEMMA LastOnes ==
  ASSUME NEW S, NEW s \in Seq(S), NEW n \in Nat \ {0}
  PROVE  /\ LastOf(s, n) \in Seq(S)
         /\ Len(LastOf(s, n)) <= n
         /\ \A i \in 1 .. Len(LastOf(s, n)) :
              \E j \in 1 .. Len(s) : LastOf(s, n)[i] = s[j]
<1> DEFINE l == Least(n, Len(s))
           m == Len(s) - l + 1
<1>1. l \in Nat /\ l <= n /\ l <= Len(s)
  <2>1. n \in Nat /\ Len(s) \in Nat
    OBVIOUS
  <2> QED BY <2>1, LeastIsMinimum
<1>2. m \in 1 .. Len(s) + 1 /\ Len(s) - m + 1 = l
  BY <1>1
<1>3. \A i \in m .. Len(s) : s[i] \in S
  BY <1>2
<1>4. LastOf(s, n) = SubSeq(s, m, Len(s))
  BY DEF LastOf
<1> HIDE DEF l, m
<1>5. /\ SubSeq(s, m, Len(s)) \in Seq(S)
      /\ Len(SubSeq(s, m, Len(s))) = l
      /\ \A i \in 1 .. l : SubSeq(s, m, Len(s))[i] = s[m + i - 1]
  <2>1. /\ SubSeq(s, m, Len(s)) \in Seq(S)
        /\ Len(SubSeq(s, m, Len(s)))
             = IF m <= Len(s) THEN Len(s) - m + 1 ELSE 0
        /\ \A i \in 1 .. Len(s) - m + 1 :
             SubSeq(s, m, Len(s))[i] = s[m + i - 1]
    BY <1>2, <1>3, SubSeqProperties
  <2> QED BY <1>1, <1>2, <2>1
<1>6. \A i \in 1 .. l : m + i - 1 \in 1 .. Len(s)
  BY <1>1, <1>2
<1> QED BY <1>1, <1>4, <1>5, <1>6

-----------------------------------------------------------------------------
(* Types, and what every step does to the memory *)

Decisions == {"EXECUTE", "WAIT_FOR_OWNER", "STOP_BY_INTEGRITY"}

AgentEntries == {e \in Entries : e.type \in Research \cup {"cycle_evaluated"}}

ScriptEntries == {e \in Entries : e.type \in ScriptTypes /\ e.round = 0}

AgentStates ==
  [pc : {"idle", "chain", "export", "remember", "save"}, cycle : Nat,
   valid : BOOLEAN, decision : Decisions \cup {"NONE"},
   todo : Seq(AgentEntries), failed : BOOLEAN]

Files == Nat \X (Decisions \cup {"IDLE"})

Packages == [file : Files, decision : Decisions \cup {"IDLE"}, round : Nat,
             length : Nat]

Calls == {<< >>} \cup {<<e>> : e \in ScriptEntries}

Typed ==
  /\ memory \in Seq(Entries) /\ edited \in 0 .. Len(memory)
  /\ agent \in AgentStates
  /\ script \in [Script -> Calls]
  /\ saved \in [cycles : 0 .. KeepCycles, packages : Seq(Packages)]
  /\ Len(saved.packages) <= KeepPackages
  /\ DOMAIN evidence \subseteq Files
  /\ \A f \in DOMAIN evidence : evidence[f] \in Packages /\ evidence[f].file = f
  /\ round \in Nat /\ during \in Nat

\* The program counter of the agent says what it holds.
AgentOK ==
  /\ agent.pc \in {"remember", "save"} => agent.decision \in Decisions
  /\ agent.pc # "remember" => agent.todo = << >>
  /\ agent.pc = "save" => File(agent.cycle, agent.decision) \in DOMAIN evidence

\* Entries are written after what their writer has read, in rounds that began.
HistoryOK ==
  /\ \A i \in 1 .. Len(memory) : memory[i].round <= round /\ memory[i].seen < i
  /\ \A i \in 1 .. Len(agent.todo) :
       agent.todo[i].round = round /\ agent.todo[i].seen <= Len(memory)
  /\ \A s \in Script : \A i \in 1 .. Len(script[s]) :
       script[s][i].seen <= Len(memory)

PackagesOK ==
  /\ \A n \in 1 .. Len(saved.packages) : PackageOK(saved.packages[n])
  /\ \A f \in DOMAIN evidence : PackageOK(evidence[f])

\* Entries stay, but for the type of the first, which tamper.py overwrites.
EntriesStay ==
  /\ memory' \in Seq(Entries) /\ Len(memory) <= Len(memory')
  /\ \A i \in 1 .. Len(memory) :
       \/ memory'[i] = memory[i]
       \/ i = 1 /\ memory'[i] = [memory[i] EXCEPT !.type = "unauthorized"]

LEMMA AgentConstants ==
  /\ SourcesV1 \in Seq(STRING) /\ Addition \in STRING
  /\ Window \in Nat \ {0} /\ KeepCycles \in Nat \ {0} /\ KeepPackages \in Nat \ {0}
BY AgentAssumption DEF AgentAssumption

LEMMA EntryTyped ==
  ASSUME NEW t \in EntryTypes, NEW v \in Nat, NEW so \in Seq(STRING),
         NEW r \in Nat, NEW n \in Nat
  PROVE  /\ Entry(t, v, so, r, n) \in Entries
         /\ Entry(t, v, so, r, n).type = t /\ Entry(t, v, so, r, n).version = v
         /\ Entry(t, v, so, r, n).sources = so /\ Entry(t, v, so, r, n).round = r
         /\ Entry(t, v, so, r, n).seen = n
BY DEF Entry, Entries

LEMMA MemoryGrown ==
  ASSUME memory \in Seq(Entries), NEW e \in Entries, memory' = Append(memory, e)
  PROVE  /\ EntriesStay
         /\ Len(memory') = Len(memory) + 1
         /\ \A i \in 1 .. Len(memory) : memory'[i] = memory[i]
         /\ memory'[Len(memory) + 1] = e
<1>1. /\ Append(memory, e) \in Seq(Entries)
      /\ Len(Append(memory, e)) = Len(memory) + 1
      /\ \A i \in 1 .. Len(memory) : Append(memory, e)[i] = memory[i]
      /\ Append(memory, e)[Len(memory) + 1] = e
  OBVIOUS
<1> QED BY <1>1 DEF EntriesStay

LEMMA MemoryEdited ==
  ASSUME memory \in Seq(Entries), Tamper
  PROVE  /\ EntriesStay
         /\ memory # << >> /\ Len(memory) \in Nat \ {0}
         /\ Len(memory') = Len(memory)
         /\ \A i \in 2 .. Len(memory) : memory'[i] = memory[i]
         /\ memory'[1] = [memory[1] EXCEPT !.type = "unauthorized"]
         /\ memory'[1] \in Entries /\ memory'[1].type = "unauthorized"
<1>1. memory # << >> /\ memory' = [memory EXCEPT ![1].type = "unauthorized"]
  BY DEF Tamper
<1>2. Len(memory) \in Nat \ {0} /\ memory[1] \in Entries
  BY <1>1
<1> DEFINE e == [memory[1] EXCEPT !.type = "unauthorized"]
<1>3. e \in Entries /\ e.type = "unauthorized"
  BY <1>2 DEF Entries, EntryTypes
<1>4. memory' = [memory EXCEPT ![1] = e]
  BY <1>1
<1>5. /\ memory' \in Seq(Entries) /\ Len(memory') = Len(memory)
      /\ \A i \in 1 .. Len(memory) : memory'[i] = IF i = 1 THEN e ELSE memory[i]
  <2> HIDE DEF e
  <2> QED BY <1>2, <1>3, <1>4, ExceptSeq
<1>6. EntriesStay
  BY <1>2, <1>5 DEF EntriesStay
<1> QED BY <1>1, <1>2, <1>3, <1>5, <1>6

\* A script that is about to write has one entry.
LEMMA ScriptWrites ==
  ASSUME Typed, NEW s \in Script, ScriptRemember(s)
  PROVE  \E e \in ScriptEntries :
           /\ script[s] = <<e>>
           /\ memory' = Append(memory, e)
<1>1. script[s] # << >> /\ memory' = memory \o script[s]
  BY DEF ScriptRemember, Staged
<1>2. script[s] \in Calls
  BY DEF Typed
<1>3. PICK e \in ScriptEntries : script[s] = <<e>>
  BY <1>1, <1>2 DEF Calls
<1>4. memory \in Seq(Entries) /\ e \in Entries
  BY DEF Typed, ScriptEntries
<1>5. memory \o <<e>> = Append(memory, e)
  BY <1>4, AppendIsConcat
<1> QED BY <1>1, <1>3, <1>5

\* The head of what the agent has to write.
LEMMA AgentWrites ==
  ASSUME Typed, Writing
  PROVE  /\ Head(agent.todo) \in AgentEntries
         /\ Head(agent.todo) = agent.todo[1]
         /\ Tail(agent.todo) \in Seq(AgentEntries)
         /\ Len(agent.todo) \in Nat \ {0}
         /\ Len(Tail(agent.todo)) = Len(agent.todo) - 1
         /\ \A i \in 1 .. Len(agent.todo) - 1 :
              Tail(agent.todo)[i] = agent.todo[i + 1]
<1>1. agent.todo \in Seq(AgentEntries) /\ agent.todo # << >>
  BY DEF Typed, AgentStates, Writing
<1> QED BY <1>1, HeadTailProperties

LEMMA MemoryStays ==
  ASSUME Typed, [AgentNext]_agentVars
  PROVE  EntriesStay
<1>1. memory \in Seq(Entries)
  BY DEF Typed
<1>2. CASE AgentRemember
  <2>1. Writing /\ memory' = Append(memory, Head(agent.todo))
    BY <1>2 DEF AgentRemember
  <2>2. Head(agent.todo) \in Entries
    BY <2>1, AgentWrites DEF AgentEntries
  <2> QED BY <1>1, <2>1, <2>2, MemoryGrown
<1>3. CASE \E s \in Script : ScriptRemember(s)
  <2>1. PICK e \in ScriptEntries : memory' = Append(memory, e)
    BY <1>3, ScriptWrites
  <2>2. e \in Entries
    BY DEF ScriptEntries
  <2> QED BY <1>1, <2>1, <2>2, MemoryGrown
<1>4. CASE Tamper
  BY <1>1, <1>4, MemoryEdited
<1>5. CASE UNCHANGED memory
  BY <1>1, <1>5 DEF EntriesStay
<1>6. CASE \E s \in Script : OwnerReads(s) \/ UpdateReads(s) \/ Inject(s)
  <2>1. UNCHANGED memory
    BY <1>6 DEF OwnerReads, UpdateReads, Inject, Stage
  <2> QED BY <2>1, <1>5
<1>7. CASE \/ StartAgent \/ ReadChain \/ ReadExport \/ AgentThrows
           \/ WritePackage \/ SaveState \/ Kill
  <2>1. UNCHANGED memory
    BY <1>7 DEF StartAgent, ReadChain, ReadExport, AgentThrows, WritePackage,
                SaveState, Kill
  <2> QED BY <2>1, <1>5
<1> QED BY <1>2, <1>3, <1>4, <1>5, <1>6, <1>7 DEF AgentNext, agentVars

-----------------------------------------------------------------------------
(* What is read and what is written after it *)

LEMMA VisibleTyped ==
  ASSUME memory \in Seq(Entries)
  PROVE  /\ Visible \in Seq(Entries)
         /\ Len(Visible) \in 0 .. Len(memory)
         /\ \A i \in 1 .. Len(Visible) : Visible[i] = memory[i]
         /\ Len(Visible) = Least(Len(memory), Window)
<1> DEFINE n == Least(Len(memory), Window)
<1>1. Len(memory) \in Nat /\ Window \in Nat /\ n \in 0 .. Len(memory)
  <2>1. Len(memory) \in Nat /\ Window \in Nat
    BY AgentConstants
  <2> QED BY <2>1 DEF Least
<1>2. Visible = SubSeq(memory, 1, n)
  BY DEF Visible
<1>3. /\ SubSeq(memory, 1, n) \in Seq(Entries)
      /\ Len(SubSeq(memory, 1, n)) = n
      /\ \A i \in 1 .. n : SubSeq(memory, 1, n)[i] = memory[i]
  <2> HIDE DEF n
  <2> QED BY <1>1, FirstOnes
<1> QED BY <1>1, <1>2, <1>3

\* The latest policy is the one at the last position, if there is any.
LEMMA PolicyTyped ==
  ASSUME NEW events \in Seq(Entries)
  PROVE  /\ LatestPolicy(events).version \in Nat
         /\ LatestPolicy(events).sources \in Seq(STRING)
         /\ LatestPolicy(events) # NoPolicy => Positions(events, Policies) # {}
<1> DEFINE found == Positions(events, Policies)
<1>1. CASE found = {}
  <2>1. LatestPolicy(events) = NoPolicy
    BY <1>1 DEF LatestPolicy
  <2>2. NoPolicy.version \in Nat /\ NoPolicy.sources \in Seq(STRING)
    BY DEF NoPolicy, Entry
  <2> QED BY <2>1, <2>2
<1>2. CASE found # {}
  <2>1. found \in SUBSET (1 .. Len(events)) /\ Len(events) \in Nat
    BY DEF Positions
  <2>2. Last(found) \in 1 .. Len(events)
    BY <1>2, <2>1, LastIsGreatest
  <2>3. LatestPolicy(events) = events[Last(found)]
    BY <1>2 DEF LatestPolicy
  <2>4. LatestPolicy(events) \in Entries
    BY <2>2, <2>3
  <2> QED BY <1>2, <2>4 DEF Entries
<1> QED BY <1>1, <1>2

\* What the agent writes, given what it has decided and read.
LEMMA ResearchTyped ==
  ASSUME NEW so \in Seq(STRING), NEW r \in Nat, NEW n \in Nat
  PROVE  /\ ResearchEntries(so, r, n) \in Seq(AgentEntries)
         /\ Len(ResearchEntries(so, r, n)) = 2 * Len(so) + 1
         /\ \A k \in 1 .. Len(so) :
              /\ ResearchEntries(so, r, n)[2 * k - 1].type = "source_selected"
              /\ ResearchEntries(so, r, n)[2 * k].type = "source_visited"
              /\ ResearchEntries(so, r, n)[2 * k - 1].sources = <<so[k]>>
              /\ ResearchEntries(so, r, n)[2 * k].sources = <<so[k]>>
         /\ ResearchEntries(so, r, n)[2 * Len(so) + 1].type = "brief_generated"
         /\ ResearchEntries(so, r, n)[2 * Len(so) + 1].sources = so
         /\ \A i \in 1 .. Len(ResearchEntries(so, r, n)) :
              /\ ResearchEntries(so, r, n)[i].round = r
              /\ ResearchEntries(so, r, n)[i].seen = n
<1> DEFINE entries == ResearchEntries(so, r, n)
           m == 2 * Len(so) + 1
           brief == Entry("brief_generated", 0, so, r, n)
           step(i) == Entry(IF i % 2 = 1 THEN "source_selected" ELSE "source_visited",
                            0, <<so[(i + 1) \div 2]>>, r, n)
<1>1. entries = [i \in 1 .. m |-> IF i > 2 * Len(so) THEN brief ELSE step(i)]
  BY DEF ResearchEntries
<1>2. m \in Nat /\ m = 2 * Len(so) + 1 /\ Len(so) \in Nat
  OBVIOUS
<1>3. /\ brief \in AgentEntries /\ brief.round = r /\ brief.seen = n
      /\ brief.type = "brief_generated" /\ brief.sources = so
  BY EntryTyped DEF AgentEntries, EntryTypes, Research
<1>4. ASSUME NEW i \in 1 .. m, i <= 2 * Len(so)
      PROVE  /\ step(i) \in AgentEntries
             /\ step(i).round = r /\ step(i).seen = n
             /\ step(i).sources = <<so[(i + 1) \div 2]>>
             /\ step(i).type
                  = IF i % 2 = 1 THEN "source_selected" ELSE "source_visited"
  <2> DEFINE t == IF i % 2 = 1 THEN "source_selected" ELSE "source_visited"
             one == <<so[(i + 1) \div 2]>>
  <2>1. (i + 1) \div 2 \in 1 .. Len(so)
    BY <1>4
  <2>2. one \in Seq(STRING)
    BY <2>1
  <2>3. t \in EntryTypes /\ t \in Research
    BY DEF EntryTypes, Research
  <2>4. step(i) = Entry(t, 0, one, r, n)
    OBVIOUS
  <2> HIDE DEF t, one, step
  <2>5. /\ Entry(t, 0, one, r, n) \in Entries
        /\ Entry(t, 0, one, r, n).type = t
        /\ Entry(t, 0, one, r, n).sources = one
        /\ Entry(t, 0, one, r, n).round = r /\ Entry(t, 0, one, r, n).seen = n
    BY <2>2, <2>3 DEF Entry, Entries
  <2> QED BY <2>3, <2>4, <2>5 DEF AgentEntries, t, one
<1> HIDE DEF entries, brief, step, m
<1>5. /\ entries \in [1 .. m -> AgentEntries]
      /\ \A i \in 1 .. m : entries[i].round = r /\ entries[i].seen = n
  BY <1>1, <1>2, <1>3, <1>4
<1>6. entries \in Seq(AgentEntries) /\ Len(entries) = m
  BY <1>2, <1>5
<1>7. ASSUME NEW k \in 1 .. Len(so)
      PROVE  /\ entries[2 * k - 1].type = "source_selected"
             /\ entries[2 * k].type = "source_visited"
             /\ entries[2 * k - 1].sources = <<so[k]>>
             /\ entries[2 * k].sources = <<so[k]>>
  <2>1. /\ 2 * k - 1 \in 1 .. m /\ 2 * k \in 1 .. m
        /\ 2 * k - 1 <= 2 * Len(so) /\ 2 * k <= 2 * Len(so)
        /\ (2 * k - 1) % 2 = 1 /\ (2 * k) % 2 = 0
        /\ ((2 * k - 1) + 1) \div 2 = k /\ (2 * k + 1) \div 2 = k
    BY <1>2
  <2>2. entries[2 * k - 1] = step(2 * k - 1) /\ entries[2 * k] = step(2 * k)
    BY <1>1, <1>2, <2>1
  <2>3. /\ step(2 * k - 1).type = "source_selected"
        /\ step(2 * k - 1).sources = <<so[k]>>
    BY <1>4, <2>1
  <2>4. step(2 * k).type = "source_visited" /\ step(2 * k).sources = <<so[k]>>
    <3>1. ~ (2 * k) % 2 = 1
      BY <2>1
    <3> QED BY <1>4, <2>1, <3>1
  <2> QED BY <2>2, <2>3, <2>4
<1>8. entries[m] = brief
  BY <1>1, <1>2
<1> QED BY <1>2, <1>3, <1>5, <1>6, <1>7, <1>8 DEF entries

LEMMA BatchTyped ==
  ASSUME NEW d \in Decisions, NEW so \in Seq(STRING), NEW r \in Nat, NEW n \in Nat
  PROVE  /\ Batch(d, so, r, n) \in Seq(AgentEntries)
         /\ \A i \in 1 .. Len(Batch(d, so, r, n)) :
              /\ Batch(d, so, r, n)[i].round = r
              /\ Batch(d, so, r, n)[i].seen = n
         /\ d = "STOP_BY_INTEGRITY" => Batch(d, so, r, n) = << >>
<1>1. CASE d = "EXECUTE"
  <2>1. Batch(d, so, r, n) = ResearchEntries(so, r, n)
    BY <1>1 DEF Batch
  <2> QED BY <1>1, <2>1, ResearchTyped
<1>2. CASE d = "WAIT_FOR_OWNER"
  <2>1. Batch(d, so, r, n) = <<WaitEntry(r, n)>>
    BY <1>2 DEF Batch
  <2>2. << >> \in Seq(STRING) /\ "cycle_evaluated" \in EntryTypes /\ 0 \in Nat
    BY DEF EntryTypes
  <2>3. /\ WaitEntry(r, n) \in AgentEntries
        /\ WaitEntry(r, n).round = r /\ WaitEntry(r, n).seen = n
    BY <2>2 DEF WaitEntry, Entry, Entries, AgentEntries
  <2>4. /\ <<WaitEntry(r, n)>> \in Seq(AgentEntries)
        /\ Len(<<WaitEntry(r, n)>>) = 1
        /\ <<WaitEntry(r, n)>>[1] = WaitEntry(r, n)
    BY <2>3
  <2>5. Batch(d, so, r, n)[1].round = r /\ Batch(d, so, r, n)[1].seen = n
    BY <2>1, <2>3, <2>4
  <2>6. Batch(d, so, r, n) \in Seq(AgentEntries) /\ Len(Batch(d, so, r, n)) = 1
    BY <2>1, <2>4
  <2>7. \A i \in 1 .. Len(Batch(d, so, r, n)) : i = 1
    BY <2>6
  <2> QED BY <1>2, <2>5, <2>6, <2>7
<1>3. CASE d = "STOP_BY_INTEGRITY"
  BY <1>3 DEF Batch
<1> QED BY <1>1, <1>2, <1>3 DEF Decisions

-----------------------------------------------------------------------------
(* Types are kept *)

LEMMA IdleTyped ==
  /\ Idle \in AgentStates
  /\ Idle.pc = "idle" /\ Idle.todo = << >> /\ Idle.valid = TRUE
  /\ \A c \in Nat : [Idle EXCEPT !.pc = "chain", !.cycle = c] \in AgentStates
  /\ \A c \in Nat : LET a == [Idle EXCEPT !.pc = "chain", !.cycle = c]
                    IN  a.pc = "chain" /\ a.cycle = c /\ a.todo = << >>
<1>1. << >> \in Seq(AgentEntries)
  OBVIOUS
<1> QED BY <1>1 DEF Idle, AgentStates

LEMMA TypedStart ==
  ASSUME NEW s \in Script, NEW e \in ScriptEntries, Typed, Stage(s, e)
  PROVE  Typed'
<1>1. <<e>> \in Calls
  BY DEF Calls
<1>2. script' \in [Script -> Calls]
  BY <1>1 DEF Typed, Stage
<1>3. UNCHANGED <<memory, edited, agent, saved, evidence, round, during>>
  BY DEF Stage
<1> QED BY <1>2, <1>3 DEF Typed

\* What a script is about to write.
LEMMA StagedTyped ==
  ASSUME memory \in Seq(Entries)
  PROVE  /\ Entry("owner_resolution", 0, << >>, 0, Len(memory)) \in ScriptEntries
         /\ Entry("action_requested", 0, << >>, 0, 0) \in ScriptEntries
         /\ LET p == LatestPolicy(Visible)
            IN  Entry("policy_updated", p.version + 1, Append(p.sources, Addition),
                      0, Len(memory)) \in ScriptEntries
<1>1. << >> \in Seq(STRING) /\ 0 \in Nat /\ Len(memory) \in Nat
  OBVIOUS
<1>2. {"owner_resolution", "action_requested", "policy_updated"}
        \subseteq ScriptTypes \cap EntryTypes
  BY DEF ScriptTypes, EntryTypes, Resolutions
<1>3. /\ Entry("owner_resolution", 0, << >>, 0, Len(memory)) \in ScriptEntries
      /\ Entry("action_requested", 0, << >>, 0, 0) \in ScriptEntries
  BY <1>1, <1>2 DEF Entry, Entries, ScriptEntries
<1> DEFINE p == LatestPolicy(Visible)
<1>4. p.version \in Nat /\ p.sources \in Seq(STRING)
  BY VisibleTyped, PolicyTyped
<1> HIDE DEF p
<1>5. p.version + 1 \in Nat /\ Append(p.sources, Addition) \in Seq(STRING)
  BY <1>4, AgentConstants
<1>6. Entry("policy_updated", p.version + 1, Append(p.sources, Addition), 0,
            Len(memory))
        \in ScriptEntries
  BY <1>1, <1>2, <1>5 DEF Entry, Entries, ScriptEntries
<1> QED BY <1>3, <1>6 DEF p

LEMMA ReadExportTyped ==
  ASSUME Typed, ReadExport
  PROVE  /\ agent'.todo \in Seq(AgentEntries)
         /\ agent' = [agent EXCEPT !.pc = "remember",
                        !.decision = EvaluateCycle(agent.valid, Visible),
                        !.todo = agent'.todo]
         /\ agent'.todo = Batch(EvaluateCycle(agent.valid, Visible),
                                LatestPolicy(Visible).sources, round, Len(memory))
         /\ EvaluateCycle(agent.valid, Visible) \in Decisions
         /\ \A i \in 1 .. Len(agent'.todo) :
              agent'.todo[i].round = round /\ agent'.todo[i].seen = Len(memory)
         /\ UNCHANGED <<memory, edited, script, saved, evidence, round, during>>
<1> DEFINE d == EvaluateCycle(agent.valid, Visible)
           so == LatestPolicy(Visible).sources
           batch == Batch(d, so, round, Len(memory))
<1>1. d \in Decisions
  BY DEF EvaluateCycle, Decisions
<1>2. memory \in Seq(Entries) /\ round \in Nat /\ Len(memory) \in Nat
  BY DEF Typed
<1>3. so \in Seq(STRING)
  BY <1>2, VisibleTyped, PolicyTyped
<1>4. /\ batch \in Seq(AgentEntries)
      /\ \A i \in 1 .. Len(batch) :
           batch[i].round = round /\ batch[i].seen = Len(memory)
  <2> HIDE DEF d, so
  <2> QED BY <1>1, <1>2, <1>3, BatchTyped
<1>5. /\ agent' = [agent EXCEPT !.pc = "remember", !.decision = d, !.todo = batch]
      /\ UNCHANGED <<memory, edited, script, saved, evidence, round, during>>
  BY DEF ReadExport
<1>6. agent'.todo = batch
  <2> HIDE DEF d, batch
  <2> QED BY <1>5 DEF Typed, AgentStates
<1> HIDE DEF batch
<1> QED BY <1>1, <1>4, <1>5, <1>6 DEF batch

LEMMA FilesTyped ==
  ASSUME NEW c \in Nat, NEW d \in Decisions, NEW r \in Nat, memory \in Seq(Entries)
  PROVE  /\ File(c, d) \in Files
         /\ Package(c, d, r) \in Packages /\ Package(c, d, r).file = File(c, d)
         /\ Package(c, d, r).decision = d /\ Package(c, d, r).round = r
         /\ Package(c, d, r).length = Len(memory)
BY DEF File, Files, Package, Packages

LEMMA TypedStep ==
  ASSUME Typed, AgentOK, [AgentNext]_agentVars
  PROVE  Typed'
<1>1. memory \in Seq(Entries) /\ agent \in AgentStates
  BY DEF Typed
<1>2. CASE StartAgent
  <2>1. CycleNumber(saved) \in Nat
    BY AgentConstants DEF Typed, CycleNumber
  <2>2. agent' \in AgentStates
    BY <1>2, <2>1, IdleTyped DEF StartAgent
  <2> QED BY <1>2, <2>2 DEF StartAgent, Typed
<1>3. CASE ReadChain
  <2>1. agent' \in AgentStates
    BY <1>1, <1>3 DEF ReadChain, AgentStates
  <2>2. round + 1 \in Nat
    BY DEF Typed
  <2> QED BY <1>3, <2>1, <2>2 DEF ReadChain, Typed
<1>4. CASE ReadExport
  <2>1. agent' \in AgentStates
    BY <1>1, <1>4, ReadExportTyped DEF AgentStates
  <2> QED BY <1>4, <2>1, ReadExportTyped DEF Typed
<1>5. CASE AgentRemember
  <2>1. PICK losers \in SUBSET Staged :
          /\ Writing
          /\ memory' = Append(memory, Head(agent.todo))
          /\ agent' = [agent EXCEPT !.todo = Tail(@)]
          /\ script' = [s \in Script |-> IF s \in losers THEN << >> ELSE script[s]]
          /\ UNCHANGED <<edited, saved, evidence, round, during>>
    BY <1>5 DEF AgentRemember
  <2>2. Head(agent.todo) \in Entries /\ Tail(agent.todo) \in Seq(AgentEntries)
    BY <2>1, AgentWrites DEF AgentEntries
  <2>3. memory' \in Seq(Entries) /\ edited' \in 0 .. Len(memory')
    BY <1>1, <2>1, <2>2, MemoryGrown DEF EntriesStay, Typed
  <2>4. agent' \in AgentStates
    BY <1>1, <2>1, <2>2 DEF AgentStates
  <2>5. script' \in [Script -> Calls]
    BY <2>1 DEF Typed, Calls
  <2> QED BY <2>1, <2>3, <2>4, <2>5 DEF Typed
<1>6. CASE AgentThrows \/ Kill
  <2>1. agent' = Idle /\ UNCHANGED <<memory, edited, script, saved, evidence, round, during>>
    BY <1>6 DEF AgentThrows, Kill
  <2> QED BY <2>1, IdleTyped DEF Typed
<1>7. CASE WritePackage
  <2> DEFINE package == Package(agent.cycle, agent.decision, round)
  <2>1. /\ agent.pc = "remember"
        /\ evidence' = [f \in DOMAIN evidence \cup {package.file} |->
                          IF f = package.file THEN package ELSE evidence[f]]
        /\ agent' = [agent EXCEPT !.pc = "save"]
        /\ UNCHANGED <<memory, edited, script, saved, round, during>>
    BY <1>7 DEF WritePackage, Goto
  <2>2. package \in Packages /\ package.file \in Files
    <3>1. agent.cycle \in Nat /\ agent.decision \in Decisions /\ round \in Nat
      BY <1>1, <2>1 DEF AgentStates, AgentOK, Typed
    <3> QED BY <1>1, <3>1, FilesTyped
  <2> HIDE DEF package
  <2>3. /\ DOMAIN evidence' \subseteq Files
        /\ \A f \in DOMAIN evidence' : evidence'[f] \in Packages /\ evidence'[f].file = f
    BY <2>1, <2>2 DEF Typed
  <2>4. agent' \in AgentStates
    BY <1>1, <2>1 DEF AgentStates
  <2> QED BY <2>1, <2>3, <2>4 DEF Typed
<1>8. CASE SaveState
  <2> DEFINE package == evidence[File(agent.cycle, agent.decision)]
             listed == Append(saved.packages, package)
  <2>1. /\ agent.pc = "save"
        /\ saved' = [cycles |-> CyclesKept(saved.cycles),
                     packages |-> LastOf(listed, KeepPackages)]
        /\ \/ agent' = Idle
           \/ agent' = [Idle EXCEPT !.pc = "chain", !.cycle = agent.cycle + 1]
        /\ UNCHANGED <<memory, edited, script, evidence, round, during>>
    BY <1>8 DEF SaveState
  <2>2. package \in Packages
    BY <2>1 DEF AgentOK, Typed
  <2>3. listed \in Seq(Packages)
    <3> HIDE DEF package
    <3> QED BY <2>2 DEF Typed
  <2>4. LastOf(listed, KeepPackages) \in Seq(Packages)
        /\ Len(LastOf(listed, KeepPackages)) <= KeepPackages
    <3> HIDE DEF listed
    <3> QED BY <2>3, LastOnes, AgentConstants
  <2>5. CyclesKept(saved.cycles) \in 0 .. KeepCycles
    BY AgentConstants DEF CyclesKept, Least, Typed
  <2>6. saved' \in [cycles : 0 .. KeepCycles, packages : Seq(Packages)]
        /\ Len(saved'.packages) <= KeepPackages
    <3> HIDE DEF listed
    <3> QED BY <2>1, <2>4, <2>5
  <2>7. agent' \in AgentStates
    <3>1. agent.cycle + 1 \in Nat
      BY <1>1 DEF AgentStates
    <3> QED BY <2>1, <3>1, IdleTyped
  <2> QED BY <2>1, <2>6, <2>7 DEF Typed
<1>9. CASE \E s \in Script : OwnerReads(s) \/ UpdateReads(s) \/ Inject(s)
  <2>1. PICK s \in Script : OwnerReads(s) \/ UpdateReads(s) \/ Inject(s)
    BY <1>9
  <2>2. \E e \in ScriptEntries : Stage(s, e)
    BY <1>1, <2>1, StagedTyped DEF OwnerReads, UpdateReads, Inject
  <2> QED BY <2>2, TypedStart
<1>10. CASE \E s \in Script : ScriptRemember(s)
  <2>1. PICK s \in Script : ScriptRemember(s)
    BY <1>10
  <2>2. PICK losers \in SUBSET (Staged \ {s}), agentLoses \in BOOLEAN :
          /\ agentLoses => Writing
          /\ script' = [t \in Script |->
                          IF t \in losers \cup {s} THEN << >> ELSE script[t]]
          /\ agent' = IF agentLoses
                        THEN [agent EXCEPT !.todo = Tail(@), !.failed = TRUE]
                        ELSE agent
          /\ UNCHANGED <<edited, saved, evidence, round, during>>
    BY <2>1 DEF ScriptRemember, Refused
  <2>3. PICK e \in ScriptEntries : memory' = Append(memory, e)
    BY <2>1, ScriptWrites
  <2>4. memory' \in Seq(Entries) /\ edited' \in 0 .. Len(memory')
    BY <1>1, <2>2, <2>3, MemoryGrown DEF EntriesStay, Typed, ScriptEntries
  <2>5. script' \in [Script -> Calls]
    BY <2>2 DEF Typed, Calls
  <2>6. agent' \in AgentStates
    BY <1>1, <2>2, AgentWrites DEF AgentStates
  <2> QED BY <2>2, <2>4, <2>5, <2>6 DEF Typed
<1>11. CASE Tamper
  <2>1. PICK losers \in SUBSET Staged, agentLoses \in BOOLEAN :
          /\ agentLoses => Writing
          /\ agent' = IF agentLoses
                        THEN [agent EXCEPT !.todo = Tail(@), !.failed = TRUE]
                        ELSE agent
          /\ script' = [t \in Script |-> IF t \in losers THEN << >> ELSE script[t]]
          /\ edited' = Len(memory) /\ during' \in {0, round}
          /\ UNCHANGED <<saved, evidence, round>>
    BY <1>11 DEF Tamper, Refused
  <2>2. memory' \in Seq(Entries) /\ Len(memory') = Len(memory) /\ Len(memory) \in Nat
    BY <1>1, <1>11, MemoryEdited DEF EntriesStay
  <2>3. agent' \in AgentStates
    BY <1>1, <2>1, AgentWrites DEF AgentStates
  <2>4. script' \in [Script -> Calls]
    BY <2>1 DEF Typed, Calls
  <2> QED BY <2>1, <2>2, <2>3, <2>4 DEF Typed
<1>12. CASE UNCHANGED agentVars
  BY <1>12 DEF Typed, agentVars
<1> QED BY <1>2, <1>3, <1>4, <1>5, <1>6, <1>7, <1>8, <1>9, <1>10, <1>11, <1>12
        DEF AgentNext

-----------------------------------------------------------------------------
(* What the steps do, for all the invariants *)

\* Calls under way may be refused.
Refusals == \A t \in Script : script'[t] \in {<< >>, script[t]}

\* The agent goes on with its batch.
TakesOne ==
  /\ agent.pc = "remember" /\ Len(agent.todo) \in Nat \ {0}
  /\ agent'.pc = "remember" /\ agent'.decision = agent.decision
  /\ agent'.cycle = agent.cycle /\ agent'.valid = agent.valid
  /\ Len(agent'.todo) = Len(agent.todo) - 1
  /\ \A i \in 1 .. Len(agent.todo) - 1 : agent'.todo[i] = agent.todo[i + 1]

LEMMA AgentRemembers ==
  ASSUME Typed, AgentRemember
  PROVE  /\ TakesOne /\ agent'.failed = agent.failed
         /\ agent.todo[1] \in AgentEntries
         /\ memory' = Append(memory, agent.todo[1])
         /\ Refusals
         /\ UNCHANGED <<edited, saved, evidence, round, during>>
<1>1. PICK losers \in SUBSET Staged :
        /\ Writing
        /\ memory' = Append(memory, Head(agent.todo))
        /\ agent' = [agent EXCEPT !.todo = Tail(@)]
        /\ script' = [s \in Script |-> IF s \in losers THEN << >> ELSE script[s]]
        /\ UNCHANGED <<edited, saved, evidence, round, during>>
  BY DEF AgentRemember
<1>2. agent \in AgentStates
  BY DEF Typed
<1>3. TakesOne /\ agent'.failed = agent.failed
  BY <1>1, <1>2, AgentWrites DEF AgentStates, TakesOne, Writing
<1>4. Refusals
  BY <1>1 DEF Refusals
<1> QED BY <1>1, <1>3, <1>4, AgentWrites

LEMMA ScriptRemembers ==
  ASSUME Typed, NEW s \in Script, ScriptRemember(s)
  PROVE  /\ \E e \in ScriptEntries : script[s] = <<e>> /\ memory' = Append(memory, e)
         /\ script'[s] = << >> /\ Refusals
         /\ \/ agent' = agent
            \/ TakesOne /\ agent'.failed = TRUE
         /\ UNCHANGED <<edited, saved, evidence, round, during>>
<1>1. PICK losers \in SUBSET (Staged \ {s}), agentLoses \in BOOLEAN :
        /\ agentLoses => Writing
        /\ script' = [t \in Script |->
                        IF t \in losers \cup {s} THEN << >> ELSE script[t]]
        /\ agent' = IF agentLoses
                      THEN [agent EXCEPT !.todo = Tail(@), !.failed = TRUE]
                      ELSE agent
        /\ UNCHANGED <<edited, saved, evidence, round, during>>
  BY DEF ScriptRemember, Refused
<1>2. agent \in AgentStates
  BY DEF Typed
<1>3. CASE agentLoses
  <2>1. TakesOne /\ agent'.failed = TRUE
    BY <1>1, <1>2, <1>3, AgentWrites DEF AgentStates, TakesOne, Writing
  <2> QED BY <1>1, <2>1, ScriptWrites DEF Refusals
<1>4. CASE ~ agentLoses
  BY <1>1, <1>4, ScriptWrites DEF Refusals
<1> QED BY <1>3, <1>4

\* tamper.py, which may refuse the calls it meets.
LEMMA Tampers ==
  ASSUME Typed, Tamper
  PROVE  /\ Refusals
         /\ agent' = agent \/ (TakesOne /\ agent'.failed = TRUE)
         /\ edited = 0 /\ edited' = Len(memory)
         /\ during' = IF agent.pc \in {"export", "remember"} THEN round ELSE 0
         /\ UNCHANGED <<saved, evidence, round>>
<1>1. PICK losers \in SUBSET Staged, agentLoses \in BOOLEAN :
        /\ agentLoses => Writing
        /\ agent' = IF agentLoses
                      THEN [agent EXCEPT !.todo = Tail(@), !.failed = TRUE]
                      ELSE agent
        /\ script' = [t \in Script |-> IF t \in losers THEN << >> ELSE script[t]]
        /\ edited = 0 /\ edited' = Len(memory)
        /\ during' = IF agent.pc \in {"export", "remember"} THEN round ELSE 0
        /\ UNCHANGED <<saved, evidence, round>>
  BY DEF Tamper, Refused
<1>2. agent \in AgentStates
  BY DEF Typed
<1>3. agentLoses => TakesOne /\ agent'.failed = TRUE
  BY <1>1, <1>2, AgentWrites DEF AgentStates, TakesOne, Writing
<1>4. Refusals
  BY <1>1 DEF Refusals
<1> QED BY <1>1, <1>3, <1>4

\* Scripts that only read.
LEMMA ScriptReads ==
  ASSUME Typed, NEW s \in Script, OwnerReads(s) \/ UpdateReads(s) \/ Inject(s)
  PROVE  /\ script[s] = << >>
         /\ \E e \in ScriptEntries :
              /\ script' = [script EXCEPT ![s] = <<e>>]
              /\ e.seen \in 0 .. Len(memory)
         /\ UNCHANGED <<memory, edited, agent, saved, evidence, round, during>>
<1>1. memory \in Seq(Entries) /\ Len(memory) \in Nat /\ 0 \in 0 .. Len(memory)
      /\ Len(memory) \in 0 .. Len(memory)
  BY DEF Typed
<1>2. PICK e : /\ e \in ScriptEntries /\ e.seen \in 0 .. Len(memory)
               /\ Stage(s, e)
  <2>1. CASE OwnerReads(s)
    <3> DEFINE e == Entry("owner_resolution", 0, << >>, 0, Len(memory))
    <3>1. e.seen = Len(memory)
      BY DEF Entry
    <3> QED BY <1>1, <2>1, <3>1, StagedTyped DEF OwnerReads
  <2>2. CASE UpdateReads(s)
    <3> DEFINE p == LatestPolicy(Visible)
               e == Entry("policy_updated", p.version + 1,
                          Append(p.sources, Addition), 0, Len(memory))
    <3>1. e.seen = Len(memory)
      BY DEF Entry
    <3>2. Stage(s, e) /\ e \in ScriptEntries
      BY <1>1, <2>2, StagedTyped DEF UpdateReads
    <3> HIDE DEF e
    <3> QED BY <1>1, <3>1, <3>2
  <2>3. CASE Inject(s)
    <3> DEFINE e == Entry("action_requested", 0, << >>, 0, 0)
    <3>1. e.seen = 0
      BY DEF Entry
    <3> QED BY <1>1, <2>3, <3>1, StagedTyped DEF Inject
  <2> QED BY <2>1, <2>2, <2>3
<1> QED BY <1>2 DEF Stage

\* The agent's process ends early.
Ends == agent' = Idle /\ UNCHANGED <<memory, edited, script, saved, evidence, round, during>>

LEMMA AgentEnds ==
  ASSUME AgentThrows \/ Kill
  PROVE  Ends
BY DEF AgentThrows, Kill, Ends

LEMMA PackageWritten ==
  ASSUME Typed, AgentOK, WritePackage
  PROVE  LET package == Package(agent.cycle, agent.decision, round)
         IN  /\ agent.pc = "remember" /\ agent.todo = << >> /\ ~ agent.failed
             /\ agent.decision \in Decisions
             /\ package \in Packages /\ package.file = File(agent.cycle, agent.decision)
             /\ package.decision = agent.decision /\ package.round = round
             /\ package.length = Len(memory)
             /\ DOMAIN evidence' = DOMAIN evidence \cup {package.file}
             /\ \A f \in DOMAIN evidence' :
                  evidence'[f] = IF f = package.file THEN package ELSE evidence[f]
             /\ agent' = [agent EXCEPT !.pc = "save"]
             /\ agent'.pc = "save" /\ agent'.todo = << >>
             /\ agent'.cycle = agent.cycle /\ agent'.decision = agent.decision
             /\ UNCHANGED <<memory, edited, script, saved, round, during>>
<1> DEFINE package == Package(agent.cycle, agent.decision, round)
<1>1. /\ agent.pc = "remember" /\ agent.todo = << >> /\ ~ agent.failed
      /\ evidence' = [f \in DOMAIN evidence \cup {package.file} |->
                        IF f = package.file THEN package ELSE evidence[f]]
      /\ agent' = [agent EXCEPT !.pc = "save"]
      /\ UNCHANGED <<memory, edited, script, saved, round, during>>
  BY DEF WritePackage, Goto, BatchThrows
<1>2. agent \in AgentStates /\ agent.decision \in Decisions
  BY <1>1 DEF Typed, AgentOK
<1>3. /\ package \in Packages /\ package.file = File(agent.cycle, agent.decision)
      /\ package.decision = agent.decision /\ package.round = round
      /\ package.length = Len(memory)
  <2>1. agent.cycle \in Nat /\ round \in Nat /\ memory \in Seq(Entries)
    BY <1>2 DEF AgentStates, Typed
  <2> QED BY <1>2, <2>1, FilesTyped
<1>4. /\ agent'.pc = "save" /\ agent'.todo = << >>
      /\ agent'.cycle = agent.cycle /\ agent'.decision = agent.decision
  BY <1>1, <1>2 DEF AgentStates
<1> HIDE DEF package
<1>5. /\ DOMAIN evidence' = DOMAIN evidence \cup {package.file}
      /\ \A f \in DOMAIN evidence' :
           evidence'[f] = IF f = package.file THEN package ELSE evidence[f]
  BY <1>1
<1> QED BY <1>1, <1>2, <1>3, <1>4, <1>5 DEF package

LEMMA StateSaved ==
  ASSUME Typed, AgentOK, SaveState
  PROVE  LET file    == File(agent.cycle, agent.decision)
             package == evidence[file]
         IN  /\ agent.pc = "save" /\ file \in DOMAIN evidence
             /\ package \in Packages /\ package.file = file
             /\ saved'.cycles = CyclesKept(saved.cycles)
             /\ \A i \in 1 .. Len(saved'.packages) :
                  \/ saved'.packages[i] = package
                  \/ \E j \in 1 .. Len(saved.packages) :
                       saved'.packages[i] = saved.packages[j]
             /\ agent'.todo = << >>
             /\ \/ agent'.pc = "idle"
                \/ agent'.pc = "chain" /\ agent'.cycle = agent.cycle + 1
             /\ UNCHANGED <<memory, edited, script, evidence, round, during>>
<1> DEFINE package == evidence[File(agent.cycle, agent.decision)]
           listed == Append(saved.packages, package)
<1>1. /\ agent.pc = "save"
      /\ saved' = [cycles |-> CyclesKept(saved.cycles),
                   packages |-> LastOf(listed, KeepPackages)]
      /\ \/ agent' = Idle
         \/ agent' = [Idle EXCEPT !.pc = "chain", !.cycle = agent.cycle + 1]
      /\ UNCHANGED <<memory, edited, script, evidence, round, during>>
  BY DEF SaveState
<1>2. File(agent.cycle, agent.decision) \in DOMAIN evidence
  BY <1>1 DEF AgentOK
<1>3. package \in Packages /\ package.file = File(agent.cycle, agent.decision)
  BY <1>2 DEF Typed
<1>4. /\ agent'.todo = << >>
      /\ \/ agent'.pc = "idle"
         \/ agent'.pc = "chain" /\ agent'.cycle = agent.cycle + 1
  <2>1. agent.cycle + 1 \in Nat
    BY DEF Typed, AgentStates
  <2> QED BY <1>1, <2>1, IdleTyped
<1> HIDE DEF package
<1>5. /\ listed \in Seq(Packages)
      /\ \A j \in 1 .. Len(listed) :
           \/ listed[j] = package
           \/ j \in 1 .. Len(saved.packages) /\ listed[j] = saved.packages[j]
  BY <1>3 DEF Typed
<1> HIDE DEF listed
<1>6. \A i \in 1 .. Len(LastOf(listed, KeepPackages)) :
        \E j \in 1 .. Len(listed) : LastOf(listed, KeepPackages)[i] = listed[j]
  BY <1>5, LastOnes, AgentConstants
<1>7. saved'.cycles = CyclesKept(saved.cycles)
      /\ saved'.packages = LastOf(listed, KeepPackages)
  BY <1>1
<1>8. \A i \in 1 .. Len(saved'.packages) :
        \/ saved'.packages[i] = package
        \/ \E j \in 1 .. Len(saved.packages) : saved'.packages[i] = saved.packages[j]
  BY <1>5, <1>6, <1>7
<1> QED BY <1>1, <1>2, <1>3, <1>4, <1>7, <1>8 DEF package

LEMMA AgentStarts ==
  ASSUME Typed, StartAgent
  PROVE  /\ agent.pc = "idle"
         /\ agent'.pc = "chain" /\ agent'.cycle = saved.cycles + 1
         /\ agent'.todo = << >>
         /\ UNCHANGED <<memory, edited, script, saved, evidence, round, during>>
<1>1. saved.cycles + 1 \in Nat
  BY AgentConstants DEF Typed
<1> QED BY <1>1, IdleTyped DEF StartAgent, CycleNumber

LEMMA ChainRead ==
  ASSUME Typed, ReadChain
  PROVE  /\ agent.pc = "chain" /\ agent'.pc = "export"
         /\ agent'.cycle = agent.cycle /\ agent'.todo = agent.todo
         /\ agent'.valid = (edited = 0)
         /\ round' = round + 1
         /\ UNCHANGED <<memory, edited, script, saved, evidence, during>>
BY DEF Typed, AgentStates, ReadChain

-----------------------------------------------------------------------------
(* The agent's position, the history, and the packages *)

Inv == Typed /\ AgentOK /\ HistoryOK /\ PackagesOK

LEMMA AgentStep ==
  ASSUME Typed, AgentOK, [AgentNext]_agentVars
  PROVE  AgentOK'
<1>1. CASE StartAgent \/ ReadChain
  BY <1>1, AgentStarts, ChainRead DEF AgentOK
<1>2. CASE ReadExport
  <2>1. agent'.pc = "remember" /\ agent'.decision \in Decisions
    <3> DEFINE d == EvaluateCycle(agent.valid, Visible)
    <3>1. /\ agent' = [agent EXCEPT !.pc = "remember", !.decision = d,
                         !.todo = agent'.todo]
          /\ d \in Decisions /\ agent \in AgentStates
      BY <1>2, ReadExportTyped DEF Typed
    <3> HIDE DEF d
    <3> QED BY <3>1 DEF AgentStates
  <2> QED BY <2>1 DEF AgentOK
<1>3. CASE AgentRemember \/ \E s \in Script : ScriptRemember(s)
  <2>1. UNCHANGED evidence
    BY <1>3, AgentRemembers, ScriptRemembers
  <2>2. TakesOne \/ agent' = agent
    BY <1>3, AgentRemembers, ScriptRemembers
  <2> QED BY <2>1, <2>2 DEF AgentOK, TakesOne
<1>4. CASE AgentThrows \/ Kill
  BY <1>4, AgentEnds, IdleTyped DEF Ends, AgentOK
<1>5. CASE WritePackage
  <2> DEFINE package == Package(agent.cycle, agent.decision, round)
  <2>1. /\ package.file = File(agent.cycle, agent.decision)
        /\ agent.decision \in Decisions
        /\ DOMAIN evidence' = DOMAIN evidence \cup {package.file}
        /\ agent'.pc = "save" /\ agent'.todo = << >>
        /\ agent'.cycle = agent.cycle /\ agent'.decision = agent.decision
    BY <1>5, PackageWritten
  <2>2. File(agent'.cycle, agent'.decision) = package.file
    BY <2>1
  <2>3. File(agent.cycle, agent.decision)' = package.file
    BY <2>2
  <2> HIDE DEF package
  <2> QED BY <2>1, <2>3 DEF AgentOK
<1>6. CASE SaveState
  <2>1. agent'.pc \in {"idle", "chain"} /\ agent'.todo = << >>
    BY <1>6, StateSaved
  <2> QED BY <2>1 DEF AgentOK
<1>7. CASE \E s \in Script : OwnerReads(s) \/ UpdateReads(s) \/ Inject(s)
  <2>1. UNCHANGED <<agent, evidence>>
    BY <1>7, ScriptReads
  <2> QED BY <2>1 DEF AgentOK
<1>8. CASE Tamper
  <2>1. UNCHANGED evidence /\ (TakesOne \/ agent' = agent)
    BY <1>8, Tampers
  <2> QED BY <2>1 DEF AgentOK, TakesOne
<1>9. CASE UNCHANGED agentVars
  BY <1>9 DEF AgentOK, agentVars
<1> QED BY <1>1, <1>2, <1>3, <1>4, <1>5, <1>6, <1>7, <1>8, <1>9 DEF AgentNext

\* What is under way stays in order while the memory grows.
LEMMA HistoryKept ==
  ASSUME Typed, Typed', HistoryOK, EntriesStay, UNCHANGED round,
         \A i \in Len(memory) + 1 .. Len(memory') :
           memory'[i].round <= round /\ memory'[i].seen < i,
         \A i \in 1 .. Len(agent'.todo) :
           agent'.todo[i].round = round /\ agent'.todo[i].seen <= Len(memory),
         \A s \in Script : \A i \in 1 .. Len(script'[s]) :
           script'[s][i].seen <= Len(memory)
  PROVE  HistoryOK'
<1>1. /\ Len(memory) \in Nat /\ Len(memory') \in Nat /\ Len(memory) <= Len(memory')
      /\ round' = round
  BY DEF Typed, EntriesStay
<1>2. \A i \in 1 .. Len(memory') : memory'[i].round <= round /\ memory'[i].seen < i
  <2>1. SUFFICES ASSUME NEW i \in 1 .. Len(memory')
                 PROVE  memory'[i].round <= round /\ memory'[i].seen < i
    OBVIOUS
  <2>2. CASE i \in 1 .. Len(memory)
    <3>1. memory[i].round <= round /\ memory[i].seen < i /\ memory[i] \in Entries
      BY <2>2 DEF HistoryOK, Typed
    <3>2. memory'[i].round = memory[i].round /\ memory'[i].seen = memory[i].seen
      <4>1. memory[i] \in Entries
        BY <3>1
      <4>2. \/ memory'[i] = memory[i]
            \/ memory'[i] = [memory[i] EXCEPT !.type = "unauthorized"]
        BY <2>2 DEF EntriesStay
      <4> QED BY <4>1, <4>2 DEF Entries
    <3> QED BY <3>1, <3>2
  <2>3. CASE i \notin 1 .. Len(memory)
    <3>1. i \in Len(memory) + 1 .. Len(memory')
      BY <1>1, <2>3
    <3> QED BY <3>1
  <2> QED BY <2>2, <2>3
<1>3. \A i \in 1 .. Len(agent'.todo) :
        agent'.todo[i].round = round' /\ agent'.todo[i].seen <= Len(memory')
  <2>1. SUFFICES ASSUME NEW i \in 1 .. Len(agent'.todo)
                 PROVE  agent'.todo[i].seen <= Len(memory')
    BY <1>1
  <2>2. agent'.todo[i].seen \in Nat
    <3>1. agent'.todo \in Seq(AgentEntries)
      BY DEF Typed, AgentStates
    <3>2. agent'.todo[i] \in AgentEntries
      BY <3>1
    <3> QED BY <3>2 DEF AgentEntries, Entries
  <2> QED BY <1>1, <2>2
<1>4. \A s \in Script : \A i \in 1 .. Len(script'[s]) :
        script'[s][i].seen <= Len(memory')
  <2>1. SUFFICES ASSUME NEW s \in Script, NEW i \in 1 .. Len(script'[s])
                 PROVE  script'[s][i].seen <= Len(memory')
    OBVIOUS
  <2>2. script'[s][i].seen \in Nat
    <3>1. script'[s] \in Calls
      BY DEF Typed
    <3>2. PICK e \in ScriptEntries : script'[s] = <<e>>
      <4>1. script'[s] # << >>
        OBVIOUS
      <4> QED BY <3>1, <4>1 DEF Calls
    <3>3. script'[s][i] = e
      <4>1. Len(<<e>>) = 1
        OBVIOUS
      <4> QED BY <3>2, <4>1
    <3> QED BY <3>3 DEF ScriptEntries, Entries
  <2> QED BY <1>1, <2>2
<1> QED BY <1>2, <1>3, <1>4 DEF HistoryOK

LEMMA HistoryStep ==
  ASSUME Typed, Typed', AgentOK, HistoryOK, [AgentNext]_agentVars
  PROVE  HistoryOK'
<1>1. /\ memory \in Seq(Entries) /\ Len(memory) \in Nat /\ round \in Nat
      /\ EntriesStay
  BY MemoryStays DEF Typed
<1>2. /\ \A i \in 1 .. Len(agent.todo) :
           agent.todo[i].round = round /\ agent.todo[i].seen <= Len(memory)
      /\ \A s \in Script : \A i \in 1 .. Len(script[s]) :
           script[s][i].seen <= Len(memory)
  BY DEF HistoryOK
<1>3. CASE /\ UNCHANGED <<memory, script, round>>
           /\ agent'.todo = << >> \/ agent'.todo = agent.todo
  <2>1. \A i \in 1 .. Len(agent'.todo) :
          agent'.todo[i].round = round /\ agent'.todo[i].seen <= Len(memory)
    BY <1>2, <1>3
  <2>2. \A i \in Len(memory) + 1 .. Len(memory') : FALSE
    BY <1>1, <1>3
  <2> QED BY <1>1, <1>2, <1>3, <2>1, <2>2, HistoryKept
<1>4. CASE StartAgent \/ AgentThrows \/ Kill \/ WritePackage \/ SaveState
  <2>1. /\ UNCHANGED <<memory, script, round>>
        /\ agent'.todo = << >> \/ agent'.todo = agent.todo
    BY <1>4, AgentStarts, AgentEnds, IdleTyped, PackageWritten, StateSaved
    DEF Ends
  <2> QED BY <2>1, <1>3
<1>5. CASE ReadChain
  <2>1. /\ round' = round + 1 /\ UNCHANGED <<memory, script>>
        /\ Len(agent'.todo) = 0
    <3>1. Len(<< >>) = 0
      OBVIOUS
    <3> QED BY <1>5, <3>1, ChainRead DEF AgentOK
  <2>2. \A i \in 1 .. Len(memory) : memory[i].round <= round + 1
    <3>1. SUFFICES ASSUME NEW i \in 1 .. Len(memory) PROVE memory[i].round <= round + 1
      OBVIOUS
    <3>2. memory[i].round <= round /\ memory[i].round \in Nat
      <4>1. memory[i] \in Entries
        BY <1>1
      <4> QED BY <4>1 DEF HistoryOK, Entries
    <3> QED BY <1>1, <3>2
  <2>3. \A i \in 1 .. Len(agent'.todo) : FALSE
    BY <2>1
  <2> QED BY <1>1, <2>1, <2>2, <2>3 DEF HistoryOK
<1>6. CASE ReadExport
  <2>1. /\ UNCHANGED <<memory, script, round>>
        /\ \A i \in 1 .. Len(agent'.todo) :
             agent'.todo[i].round = round /\ agent'.todo[i].seen = Len(memory)
    BY <1>6, ReadExportTyped
  <2> QED BY <1>1, <2>1 DEF HistoryOK
<1>7. ASSUME TakesOne \/ agent' = agent
       PROVE  \A i \in 1 .. Len(agent'.todo) :
                agent'.todo[i].round = round /\ agent'.todo[i].seen <= Len(memory)
  <2>1. CASE agent' = agent
    BY <1>2, <2>1
  <2>2. CASE TakesOne
    <3>1. \A i \in 1 .. Len(agent'.todo) :
            i + 1 \in 1 .. Len(agent.todo) /\ agent'.todo[i] = agent.todo[i + 1]
      BY <2>2 DEF TakesOne
    <3> QED BY <1>2, <3>1
  <2> QED BY <1>7, <2>1, <2>2
<1>8. ASSUME NEW e \in Entries, memory' = Append(memory, e), UNCHANGED round,
             e.round <= round, e.seen <= Len(memory), Refusals,
             TakesOne \/ agent' = agent
      PROVE  HistoryOK'
  <2>1. Len(memory') = Len(memory) + 1 /\ memory'[Len(memory) + 1] = e
    BY <1>1, <1>8, MemoryGrown
  <2>2. \A i \in Len(memory) + 1 .. Len(memory') :
          memory'[i].round <= round /\ memory'[i].seen < i
    <3>1. \A i \in Len(memory) + 1 .. Len(memory') : i = Len(memory) + 1
      BY <1>1, <2>1
    <3>2. e.seen < Len(memory) + 1
      BY <1>1, <1>8 DEF Entries
    <3> QED BY <1>8, <2>1, <3>1, <3>2
  <2>3. \A i \in 1 .. Len(agent'.todo) :
          agent'.todo[i].round = round /\ agent'.todo[i].seen <= Len(memory)
    BY <1>8, <1>7
  <2>4. \A s \in Script : \A i \in 1 .. Len(script'[s]) :
          script'[s][i].seen <= Len(memory)
    BY <1>2, <1>8 DEF Refusals
  <2> QED BY <1>1, <1>8, <2>2, <2>3, <2>4, HistoryKept
<1>9. CASE AgentRemember
  <2> DEFINE e == agent.todo[1]
  <2>1. /\ TakesOne /\ Refusals /\ e \in AgentEntries
        /\ memory' = Append(memory, e) /\ UNCHANGED round
    BY <1>9, AgentRemembers
  <2>2. 1 \in 1 .. Len(agent.todo)
    BY <2>1 DEF TakesOne
  <2>3. e.round = round /\ e.seen <= Len(memory) /\ e \in Entries
    BY <1>2, <2>1, <2>2 DEF AgentEntries
  <2>4. e.round <= round
    BY <1>1, <2>3
  <2> HIDE DEF e
  <2> QED BY <2>1, <2>3, <2>4, <1>8
<1>10. CASE \E s \in Script : ScriptRemember(s)
  <2>1. PICK s \in Script : ScriptRemember(s)
    BY <1>10
  <2>2. PICK e \in ScriptEntries : script[s] = <<e>> /\ memory' = Append(memory, e)
    BY <2>1, ScriptRemembers
  <2>3. Refusals /\ UNCHANGED round /\ (TakesOne \/ agent' = agent)
    BY <2>1, ScriptRemembers
  <2>4. e.seen <= Len(memory)
    <3>1. 1 \in 1 .. Len(script[s]) /\ script[s][1] = e
      BY <2>2
    <3> QED BY <1>2, <3>1
  <2>5. e \in Entries /\ e.round <= round
    BY <1>1 DEF ScriptEntries
  <2> QED BY <2>2, <2>3, <2>4, <2>5, <1>8
<1>11. CASE \E s \in Script : OwnerReads(s) \/ UpdateReads(s) \/ Inject(s)
  <2>1. PICK s \in Script : OwnerReads(s) \/ UpdateReads(s) \/ Inject(s)
    BY <1>11
  <2>2. PICK e \in ScriptEntries : /\ script' = [script EXCEPT ![s] = <<e>>]
                                   /\ e.seen \in 0 .. Len(memory)
    BY <2>1, ScriptReads
  <2>3. UNCHANGED <<memory, agent, round>>
    BY <2>1, ScriptReads
  <2>4. \A t \in Script : script'[t] = IF t = s THEN <<e>> ELSE script[t]
    BY <2>2 DEF Typed
  <2>5. \A t \in Script : \A i \in 1 .. Len(script'[t]) : script'[t][i].seen <= Len(memory)
    <3>1. SUFFICES ASSUME NEW t \in Script, NEW i \in 1 .. Len(script'[t])
                   PROVE  script'[t][i].seen <= Len(memory)
      OBVIOUS
    <3>2. CASE t = s
      <4>1. script'[t] = <<e>>
        BY <2>4, <3>2
      <4>2. i = 1 /\ script'[t][i] = e
        <5>1. Len(<<e>>) = 1 /\ <<e>>[1] = e
          OBVIOUS
        <5> QED BY <4>1, <5>1
      <4> QED BY <1>1, <2>2, <4>2
    <3>3. CASE t # s
      BY <1>2, <2>4, <3>3
    <3> QED BY <3>2, <3>3
  <2>6. \A i \in Len(memory) + 1 .. Len(memory') : FALSE
    BY <1>1, <2>3
  <2>7. \A i \in 1 .. Len(agent'.todo) :
          agent'.todo[i].round = round /\ agent'.todo[i].seen <= Len(memory)
    BY <1>2, <2>3
  <2> QED BY <1>1, <2>3, <2>5, <2>6, <2>7, HistoryKept
<1>12. CASE Tamper
  <2>1. /\ Len(memory') = Len(memory) /\ UNCHANGED round
        /\ Refusals /\ (TakesOne \/ agent' = agent)
    BY <1>1, <1>12, MemoryEdited, Tampers
  <2>2. \A i \in Len(memory) + 1 .. Len(memory') : FALSE
    BY <1>1, <2>1
  <2>3. \A i \in 1 .. Len(agent'.todo) :
          agent'.todo[i].round = round /\ agent'.todo[i].seen <= Len(memory)
    BY <1>2, <2>1, <1>7
  <2>4. \A s \in Script : \A i \in 1 .. Len(script'[s]) :
          script'[s][i].seen <= Len(memory)
    BY <1>2, <2>1 DEF Refusals
  <2> QED BY <1>1, <2>1, <2>2, <2>3, <2>4, HistoryKept
<1>13. CASE UNCHANGED agentVars
  <2>1. UNCHANGED <<memory, script, round, agent>>
    BY <1>13 DEF agentVars
  <2> QED BY <2>1, <1>3
<1> QED BY <1>4, <1>5, <1>9, <1>10, <1>11, <1>12, <1>13, <1>6 DEF AgentNext

\* A package on disk or listed stays one of its time.
LEMMA PackagesStep ==
  ASSUME Typed, Typed', AgentOK, PackagesOK, [AgentNext]_agentVars
  PROVE  PackagesOK'
<1>1. /\ Len(memory) \in Nat /\ Len(memory') \in Nat /\ Len(memory) <= Len(memory')
      /\ round \in Nat
  BY MemoryStays DEF Typed, EntriesStay
<1>2. round' \in Nat /\ round <= round'
  <2>1. CASE ReadChain
    BY <1>1, <2>1, ChainRead
  <2>2. CASE ~ ReadChain
    <3>1. UNCHANGED round
      BY <2>2 DEF AgentNext, agentVars, StartAgent, ReadExport, AgentRemember, AgentThrows,
                  WritePackage, SaveState, Kill, OwnerReads, UpdateReads, Inject, Stage,
                  ScriptRemember, Tamper
    <3> QED BY <1>1, <3>1
  <2> QED BY <2>1, <2>2
<1> DEFINE Fits(p) ==
             /\ p.file \in Nat \X {p.decision}
             /\ p.decision \in {"IDLE", "EXECUTE", "WAIT_FOR_OWNER", "STOP_BY_INTEGRITY"}
             /\ p.round \in 0 .. round'
             /\ p.length \in 0 .. Len(memory')
<1>3. /\ \A n \in 1 .. Len(saved.packages) : Fits(saved.packages[n])
      /\ \A f \in DOMAIN evidence : Fits(evidence[f])
  <2>1. \A p \in Packages : PackageOK(p) => Fits(p)
    BY <1>1, <1>2 DEF PackageOK, Packages
  <2>2. /\ \A n \in 1 .. Len(saved.packages) : saved.packages[n] \in Packages
        /\ \A f \in DOMAIN evidence : evidence[f] \in Packages
    BY DEF Typed
  <2> HIDE DEF Fits
  <2> QED BY <2>1, <2>2 DEF PackagesOK
<1>4. \A f \in DOMAIN evidence' : Fits(evidence'[f])
  <2>1. CASE WritePackage
    <3> DEFINE package == Package(agent.cycle, agent.decision, round)
    <3>1. /\ package.file = File(agent.cycle, agent.decision)
          /\ package.decision = agent.decision /\ agent.decision \in Decisions
          /\ package.round = round /\ package.length = Len(memory)
          /\ DOMAIN evidence' = DOMAIN evidence \cup {package.file}
          /\ \A f \in DOMAIN evidence' :
               evidence'[f] = IF f = package.file THEN package ELSE evidence[f]
          /\ agent.cycle \in Nat
      BY <2>1, PackageWritten DEF Typed, AgentStates
    <3> HIDE DEF package
    <3>2. Fits(package)
      BY <1>1, <1>2, <3>1 DEF File, Decisions
    <3> HIDE DEF Fits
    <3> QED BY <1>3, <3>1, <3>2
  <2>2. CASE ~ WritePackage
    <3>1. UNCHANGED evidence
      BY <2>2, ReadExportTyped DEF AgentNext, agentVars, StartAgent, ReadChain,
         ReadExport, AgentRemember, AgentThrows, SaveState, Kill, OwnerReads, UpdateReads,
         Inject, Stage, ScriptRemember, Tamper
    <3> HIDE DEF Fits
    <3> QED BY <1>3, <3>1
  <2> QED BY <2>1, <2>2
<1>5. \A n \in 1 .. Len(saved'.packages) : Fits(saved'.packages[n])
  <2>1. CASE SaveState
    <3> DEFINE file == File(agent.cycle, agent.decision)
    <3>1. /\ file \in DOMAIN evidence
          /\ \A i \in 1 .. Len(saved'.packages) :
               \/ saved'.packages[i] = evidence[file]
               \/ \E j \in 1 .. Len(saved.packages) :
                    saved'.packages[i] = saved.packages[j]
      BY <2>1, StateSaved
    <3> HIDE DEF Fits, file
    <3> QED BY <1>3, <3>1
  <2>2. CASE ~ SaveState
    <3>1. UNCHANGED saved
      BY <2>2 DEF AgentNext, agentVars, StartAgent, ReadChain, ReadExport, AgentRemember,
         AgentThrows, WritePackage, Kill, OwnerReads, UpdateReads, Inject, Stage,
         ScriptRemember, Tamper
    <3> HIDE DEF Fits
    <3> QED BY <1>3, <3>1
  <2> QED BY <2>1, <2>2
<1> QED BY <1>4, <1>5 DEF PackagesOK, PackageOK

\* Both beginnings: an empty memory, and what setup.mjs leaves.
LEMMA Beginnings ==
  ASSUME AgentInit
  PROVE  /\ agent = Idle /\ edited = 0 /\ round = 0 /\ during = 0
         /\ \A s \in Script : script[s] = << >>
         /\ script \in [Script -> Calls]
         /\ \/ /\ memory = << >> /\ saved = [cycles |-> 0, packages |-> << >>]
               /\ evidence = << >>
            \/ /\ memory = <<Charter, Created, PolicyV1>>
               /\ saved = [cycles |-> 0, packages |-> <<Package(0, "IDLE", 0)>>]
               /\ evidence = [f \in {Package(0, "IDLE", 0).file} |-> Package(0, "IDLE", 0)]
BY DEF AgentInit, Calls

LEMMA FirstEntries ==
  /\ {Charter, Created, PolicyV1} \subseteq Entries
  /\ \A e \in {Charter, Created, PolicyV1} :
       /\ e.round = 0 /\ e.seen = 0
       /\ e.type \in {"agent_charter", "agent_created", "policy_created"}
  /\ Charter.type = "agent_charter" /\ Created.type = "agent_created"
  /\ PolicyV1.type = "policy_created"
<1>1. << >> \in Seq(STRING)
  OBVIOUS
<1> QED BY <1>1, AgentConstants
        DEF Charter, Created, PolicyV1, Entry, Entries, EntryTypes, Policies

\* The package of cycle 0, written over the three entries of setup.mjs.
LEMMA FirstPackage ==
  ASSUME memory = <<Charter, Created, PolicyV1>>
  PROVE  LET ready == Package(0, "IDLE", 0)
         IN  /\ ready \in Packages /\ ready.file = <<0, "IDLE">>
             /\ ready.decision = "IDLE" /\ ready.round = 0 /\ ready.length = 3
<1>1. Len(memory) = 3
  OBVIOUS
<1> QED BY <1>1 DEF Package, Packages, File, Files

LEMMA TypedInit ==
  ASSUME AgentInit
  PROVE  Typed
<1>1. /\ agent \in AgentStates /\ edited = 0 /\ round = 0 /\ during = 0
      /\ script \in [Script -> Calls]
  BY Beginnings, IdleTyped
<1>2. CASE /\ memory = << >> /\ saved = [cycles |-> 0, packages |-> << >>]
           /\ evidence = << >>
  <2>1. memory \in Seq(Entries) /\ Len(memory) = 0
    BY <1>2
  <2>2. /\ saved \in [cycles : 0 .. KeepCycles, packages : Seq(Packages)]
        /\ Len(saved.packages) <= KeepPackages
    <3>1. << >> \in Seq(Packages) /\ Len(<< >>) = 0
      OBVIOUS
    <3> QED BY <1>2, <3>1, AgentConstants
  <2>3. DOMAIN evidence = {}
    BY <1>2
  <2> QED BY <1>1, <2>1, <2>2, <2>3 DEF Typed
<1>3. CASE /\ memory = <<Charter, Created, PolicyV1>>
           /\ saved = [cycles |-> 0, packages |-> <<Package(0, "IDLE", 0)>>]
           /\ evidence = [f \in {Package(0, "IDLE", 0).file} |-> Package(0, "IDLE", 0)]
  <2> DEFINE ready == Package(0, "IDLE", 0)
  <2>1. memory \in Seq(Entries) /\ Len(memory) = 3
    BY <1>3, FirstEntries
  <2>2. ready \in Packages /\ ready.file \in Files
    BY <1>3, FirstPackage DEF Packages
  <2> HIDE DEF ready
  <2>3. /\ saved \in [cycles : 0 .. KeepCycles, packages : Seq(Packages)]
        /\ Len(saved.packages) <= KeepPackages
    <3>1. <<ready>> \in Seq(Packages) /\ Len(<<ready>>) = 1
      BY <2>2
    <3>2. saved.cycles = 0 /\ saved.packages = <<ready>>
      BY <1>3 DEF ready
    <3>3. saved = [cycles |-> 0, packages |-> <<ready>>]
      BY <1>3 DEF ready
    <3> QED BY <3>1, <3>2, <3>3, AgentConstants
  <2>4. evidence = [f \in {ready.file} |-> ready]
    BY <1>3 DEF ready
  <2>5. /\ DOMAIN evidence \subseteq Files
        /\ \A f \in DOMAIN evidence : evidence[f] \in Packages /\ evidence[f].file = f
    BY <2>2, <2>4
  <2> QED BY <1>1, <2>1, <2>3, <2>5 DEF Typed
<1> QED BY <1>2, <1>3, Beginnings

LEMMA InvInit ==
  ASSUME AgentInit
  PROVE  Inv
<1>1. Typed
  BY TypedInit
<1>2. AgentOK
  BY Beginnings, IdleTyped DEF AgentOK
<1>3. HistoryOK
  <2>1. \A i \in 1 .. Len(agent.todo) : FALSE
    <3>1. Len(<< >>) = 0
      OBVIOUS
    <3>2. agent.todo = << >>
      BY Beginnings, IdleTyped
    <3> QED BY <3>1, <3>2
  <2>2. \A s \in Script : \A i \in 1 .. Len(script[s]) : FALSE
    <3>1. Len(<< >>) = 0
      OBVIOUS
    <3> QED BY <3>1, Beginnings
  <2>3. \A i \in 1 .. Len(memory) : memory[i].round <= round /\ memory[i].seen < i
    <3>1. CASE memory = << >>
      BY <3>1
    <3>2. CASE memory = <<Charter, Created, PolicyV1>>
      <4>1. Len(memory) = 3 /\ memory[1] = Charter /\ memory[2] = Created
            /\ memory[3] = PolicyV1
        BY <3>2
      <4>2. \A i \in 1 .. Len(memory) : memory[i] \in {Charter, Created, PolicyV1}
        BY <4>1
      <4>3. round = 0
        BY Beginnings
      <4>4. \A i \in 1 .. Len(memory) : memory[i].round = 0 /\ memory[i].seen = 0
        BY <4>2, FirstEntries
      <4> QED BY <4>1, <4>3, <4>4
    <3> QED BY <3>1, <3>2, Beginnings
  <2> QED BY <2>1, <2>2, <2>3 DEF HistoryOK
<1>4. PackagesOK
  <2>1. CASE /\ memory = << >> /\ saved = [cycles |-> 0, packages |-> << >>]
             /\ evidence = << >>
    <3>1. DOMAIN evidence = {} /\ Len(saved.packages) = 0
      BY <2>1
    <3> QED BY <3>1 DEF PackagesOK
  <2>2. CASE /\ memory = <<Charter, Created, PolicyV1>>
             /\ saved = [cycles |-> 0, packages |-> <<Package(0, "IDLE", 0)>>]
             /\ evidence = [f \in {Package(0, "IDLE", 0).file} |-> Package(0, "IDLE", 0)]
    <3> DEFINE ready == Package(0, "IDLE", 0)
    <3>1. Len(memory) = 3 /\ round = 0
      BY <2>2, Beginnings
    <3>2. PackageOK(ready)
      BY <2>2, <3>1, FirstPackage DEF PackageOK
    <3>3. saved.packages = <<ready>> /\ evidence = [f \in {ready.file} |-> ready]
      BY <2>2
    <3> HIDE DEF ready
    <3>4. Len(<<ready>>) = 1 /\ <<ready>>[1] = ready
      OBVIOUS
    <3>5. \A n \in 1 .. Len(saved.packages) : saved.packages[n] = ready
      BY <3>3, <3>4
    <3>6. \A f \in DOMAIN evidence : evidence[f] = ready
      BY <3>3
    <3> QED BY <3>2, <3>5, <3>6 DEF PackagesOK
  <2> QED BY <2>1, <2>2, Beginnings
<1> QED BY <1>1, <1>2, <1>3, <1>4 DEF Inv

LEMMA InvStep ==
  ASSUME Inv, [AgentNext]_agentVars
  PROVE  Inv'
<1>1. Typed /\ AgentOK /\ HistoryOK /\ PackagesOK
  BY DEF Inv
<1>2. Typed'
  BY <1>1, TypedStep
<1> QED BY <1>1, <1>2, AgentStep, HistoryStep, PackagesStep DEF Inv

LEMMA InvIsTypeOK ==
  ASSUME Inv
  PROVE  AgentTypeOK
<1>1. Typed /\ PackagesOK
  BY DEF Inv
<1>2. agent.todo \in Seq(Entries)
  <2>1. agent.todo \in Seq(AgentEntries) /\ AgentEntries \subseteq Entries
    BY <1>1 DEF Typed, AgentStates, AgentEntries
  <2> QED BY <2>1, SeqMonotonic
<1>3. script \in [Script -> {<< >>} \cup Seq(Entries)]
  <2>1. Calls \subseteq {<< >>} \cup Seq(Entries)
    <3>1. \A e \in ScriptEntries : <<e>> \in Seq(Entries)
      BY DEF ScriptEntries
    <3> QED BY <3>1 DEF Calls
  <2> QED BY <1>1, <2>1 DEF Typed
<1>4. agent.pc \in {"idle", "chain", "export", "remember", "save"}
  BY <1>1 DEF Typed, AgentStates
<1>5. saved.cycles \in 0 .. KeepCycles
  BY <1>1 DEF Typed
<1> QED BY <1>1, <1>2, <1>3, <1>4, <1>5 DEF Typed, PackagesOK, AgentTypeOK

LEMMA AgentInvariant == AgentSpec => []Inv
<1>1. AgentInit => Inv
  BY InvInit
<1>2. Inv /\ [AgentNext]_agentVars => Inv'
  BY InvStep
<1> QED BY <1>1, <1>2, PTL DEF AgentSpec

\* Every variable has its type, and every package was written over entries and
\* in a round there had been.
THEOREM AgentTypeCorrect == AgentSpec => []AgentTypeOK
<1>1. Inv => AgentTypeOK
  BY InvIsTypeOK
<1> QED BY <1>1, AgentInvariant, PTL

-----------------------------------------------------------------------------
(* After an edit *)

\* The agent may decide to write, and has a batch to write, only in the round
\* that was under way when the memory was edited.
EditOK ==
  edited # 0 =>
    /\ EditEndsWriting
    /\ agent.pc = "export" /\ agent.valid => round = during
    /\ agent.todo # << >> => round = during

LEMMA EditStep ==
  ASSUME Inv, EditOK, [AgentNext]_agentVars
  PROVE  EditOK'
<1>1. /\ Typed /\ AgentOK /\ HistoryOK
      /\ memory \in Seq(Entries) /\ Len(memory) \in Nat /\ edited \in Nat
      /\ agent \in AgentStates /\ agent.todo \in Seq(AgentEntries)
  BY DEF Inv, Typed, AgentStates
<1>2. TakesOne => agent.todo # << >> /\ agent.pc = "remember" /\ agent'.pc = "remember"
  <2>1. Len(<< >>) = 0
    OBVIOUS
  <2> QED BY <2>1 DEF TakesOne
<1>3. CASE /\ UNCHANGED <<memory, edited, round, during>>
           /\ agent'.todo = << >> \/ agent'.todo = agent.todo
           /\ agent'.pc # "export" \/ agent' = agent
  BY <1>3 DEF EditOK, EditEndsWriting
<1>4. CASE StartAgent \/ AgentThrows \/ Kill \/ WritePackage \/ SaveState
  <2>1. UNCHANGED <<memory, edited, round, during>> /\ agent'.todo = << >>
        /\ agent'.pc # "export"
    BY <1>1, <1>4, AgentStarts, PackageWritten, StateSaved, AgentEnds, IdleTyped
    DEF Ends
  <2> QED BY <2>1, <1>3
<1>5. CASE ReadChain
  <2>1. /\ UNCHANGED <<memory, edited, during>> /\ agent'.todo = << >>
        /\ agent'.valid = (edited = 0)
    BY <1>1, <1>5, ChainRead DEF AgentOK
  <2> QED BY <2>1 DEF EditOK, EditEndsWriting
<1>6. CASE ReadExport
  <2> DEFINE d == EvaluateCycle(agent.valid, Visible)
             so == LatestPolicy(Visible).sources
  <2>1. /\ agent.pc = "export"
        /\ agent'.todo = Batch(d, so, round, Len(memory))
        /\ UNCHANGED <<memory, edited, round, during>>
    BY <1>1, <1>6, ReadExportTyped DEF ReadExport
  <2>2. agent'.pc = "remember"
    <3>1. agent' = [agent EXCEPT !.pc = "remember", !.decision = d,
                      !.todo = agent'.todo]
      BY <1>1, <1>6, ReadExportTyped
    <3> HIDE DEF d
    <3> QED BY <1>1, <3>1 DEF AgentStates
  <2>3. ~ agent.valid => agent'.todo = << >>
    <3>1. ~ agent.valid => d = "STOP_BY_INTEGRITY"
      BY DEF EvaluateCycle
    <3>2. d = "STOP_BY_INTEGRITY" => Batch(d, so, round, Len(memory)) = << >>
      <4> HIDE DEF d, so
      <4> QED BY DEF Batch
    <3> HIDE DEF d, so
    <3> QED BY <2>1, <3>1, <3>2
  <2> HIDE DEF d, so
  <2>4. edited # 0 => EditEndsWriting'
    BY <2>1 DEF EditOK, EditEndsWriting
  <2> QED BY <2>1, <2>2, <2>3, <2>4 DEF EditOK
<1>7. ASSUME NEW e \in Entries, memory' = Append(memory, e),
             UNCHANGED <<edited, round, during>>, TakesOne \/ agent' = agent,
             edited # 0 => e.round \in {0, during}
      PROVE  EditOK'
  <2>1. SUFFICES ASSUME edited # 0 PROVE EditOK'
    BY <1>7 DEF EditOK
  <2>2. /\ Len(memory') = Len(memory) + 1 /\ memory'[Len(memory) + 1] = e
        /\ \A i \in 1 .. Len(memory) : memory'[i] = memory[i]
    BY <1>1, <1>7, MemoryGrown
  <2>3. \A i \in edited + 1 .. Len(memory') :
          \/ i \in edited + 1 .. Len(memory) /\ memory'[i] = memory[i]
          \/ memory'[i] = e
    BY <1>1, <2>2
  <2>4. EditEndsWriting'
    BY <1>7, <2>1, <2>3 DEF EditOK, EditEndsWriting
  <2> QED BY <1>2, <1>7, <2>1, <2>4 DEF EditOK
<1>8. CASE AgentRemember
  <2> DEFINE e == agent.todo[1]
  <2>1. /\ TakesOne /\ e \in AgentEntries /\ memory' = Append(memory, e)
        /\ UNCHANGED <<edited, round, during>>
    BY <1>1, <1>8, AgentRemembers
  <2>2. 1 \in 1 .. Len(agent.todo)
    BY <2>1 DEF TakesOne
  <2>3. e.round = round /\ e \in Entries
    BY <1>1, <2>1, <2>2 DEF HistoryOK, AgentEntries
  <2>4. edited # 0 => e.round = during
    BY <1>2, <2>1, <2>3 DEF EditOK
  <2> HIDE DEF e
  <2> QED BY <2>1, <2>3, <2>4, <1>7
<1>9. CASE \E s \in Script : ScriptRemember(s)
  <2>1. PICK s \in Script : ScriptRemember(s)
    BY <1>9
  <2>2. PICK e \in ScriptEntries : memory' = Append(memory, e)
    BY <1>1, <2>1, ScriptRemembers
  <2>3. UNCHANGED <<edited, round, during>> /\ (TakesOne \/ agent' = agent)
    BY <1>1, <2>1, ScriptRemembers
  <2>4. e \in Entries /\ e.round = 0
    BY DEF ScriptEntries
  <2> QED BY <2>2, <2>3, <2>4, <1>7
<1>10. CASE \E s \in Script : OwnerReads(s) \/ UpdateReads(s) \/ Inject(s)
  <2>1. UNCHANGED <<memory, edited, agent, round, during>>
    BY <1>1, <1>10, ScriptReads
  <2> QED BY <2>1, <1>3
<1>11. CASE Tamper
  <2>1. /\ edited' = Len(memory) /\ Len(memory') = Len(memory) /\ round' = round
        /\ during' = IF agent.pc \in {"export", "remember"} THEN round ELSE 0
        /\ agent' = agent \/ TakesOne
    BY <1>1, <1>11, MemoryEdited, Tampers
  <2>2. \A i \in edited' + 1 .. Len(memory') : FALSE
    BY <1>1, <2>1
  <2>3. agent'.pc = "export" => agent.pc = "export"
    BY <1>2, <2>1
  <2>4. agent'.todo # << >> => agent.pc = "remember"
    BY <1>1, <1>2, <2>1 DEF AgentOK
  <2> QED BY <2>1, <2>2, <2>3, <2>4 DEF EditOK, EditEndsWriting
<1>12. CASE UNCHANGED agentVars
  <2>1. UNCHANGED <<memory, edited, agent, round, during>>
    BY <1>12 DEF agentVars
  <2> QED BY <2>1, <1>3
<1> QED BY <1>4, <1>5, <1>6, <1>8, <1>9, <1>10, <1>11, <1>12 DEF AgentNext

\* Once the memory was edited, the agent writes no entry but the rest of the
\* batch of the cycle under way at that moment: what evaluateCycle and runCycle
\* are for.
THEOREM EditStopsTheAgent == AgentSpec => []EditEndsWriting
<1>1. AgentInit => EditOK /\ EditEndsWriting
  BY Beginnings DEF EditOK, EditEndsWriting
<1>2. Inv /\ EditOK /\ [AgentNext]_agentVars => EditOK'
  BY EditStep
<1>3. EditOK => EditEndsWriting
  BY DEF EditOK, EditEndsWriting
<1> QED BY <1>1, <1>2, <1>3, AgentInvariant, PTL DEF AgentSpec

-----------------------------------------------------------------------------
(* The numbers of cycles, and the files *)

\* As long as state.json forgets nothing, the cycle under way has the number
\* after those listed; later its number is beyond KeepCycles.
CycleOK ==
  agent.pc # "idle" =>
    /\ agent.cycle > saved.cycles
    /\ saved.cycles < KeepCycles => agent.cycle = saved.cycles + 1

ListedOK(p) ==
  /\ saved.cycles < KeepCycles => p.file[1] <= saved.cycles
  /\ p.file[1] <= KeepCycles => p.file \in DOMAIN evidence /\ evidence[p.file] = p

DiskOK == CycleOK /\ \A n \in 1 .. Len(saved.packages) : ListedOK(saved.packages[n])

LEMMA DiskInit ==
  ASSUME AgentInit
  PROVE  DiskOK
<1>1. CycleOK
  BY Beginnings, IdleTyped DEF CycleOK
<1>2. CASE saved = [cycles |-> 0, packages |-> << >>]
  <2>1. Len(saved.packages) = 0
    BY <1>2
  <2> QED BY <1>1, <2>1 DEF DiskOK
<1>3. CASE /\ memory = <<Charter, Created, PolicyV1>>
           /\ saved = [cycles |-> 0, packages |-> <<Package(0, "IDLE", 0)>>]
           /\ evidence = [f \in {Package(0, "IDLE", 0).file} |-> Package(0, "IDLE", 0)]
  <2> DEFINE ready == Package(0, "IDLE", 0)
  <2>1. ready.file = <<0, "IDLE">>
    BY <1>3, FirstPackage
  <2>2. /\ saved.cycles = 0 /\ saved.packages = <<ready>>
        /\ evidence = [f \in {ready.file} |-> ready]
    BY <1>3
  <2> HIDE DEF ready
  <2>3. ready.file[1] = 0
    BY <2>1
  <2>4. ListedOK(ready)
    BY <2>2, <2>3 DEF ListedOK
  <2>5. \A n \in 1 .. Len(saved.packages) : saved.packages[n] = ready
    <3>1. Len(<<ready>>) = 1 /\ <<ready>>[1] = ready
      OBVIOUS
    <3> QED BY <2>2, <3>1
  <2> QED BY <1>1, <2>4, <2>5 DEF DiskOK
<1> QED BY <1>2, <1>3, Beginnings

LEMMA DiskStep ==
  ASSUME Inv, DiskOK, [AgentNext]_agentVars
  PROVE  DiskOK'
<1>1. /\ Typed /\ AgentOK /\ agent \in AgentStates
      /\ saved.cycles \in 0 .. KeepCycles /\ KeepCycles \in Nat \ {0}
      /\ saved.packages \in Seq(Packages) /\ agent.cycle \in Nat
  BY AgentConstants DEF Inv, Typed, AgentStates
<1>2. \A p \in Packages : p.file[1] \in Nat /\ p.file \in Files
  BY DEF Packages, Files
<1>3. \A n \in 1 .. Len(saved.packages) :
        saved.packages[n] \in Packages /\ ListedOK(saved.packages[n])
  BY <1>1 DEF DiskOK
<1>4. CASE /\ UNCHANGED <<saved, evidence>>
           /\ \/ agent'.pc = "idle"
              \/ agent'.cycle = saved.cycles + 1
              \/ agent'.cycle = agent.cycle /\ agent.pc # "idle"
              \/ agent' = agent
  <2>1. CycleOK'
    BY <1>1, <1>4 DEF DiskOK, CycleOK
  <2>2. \A n \in 1 .. Len(saved'.packages) : ListedOK(saved.packages[n])'
    BY <1>4 DEF DiskOK, ListedOK
  <2> QED BY <1>4, <2>1, <2>2 DEF DiskOK
<1>5. CASE \/ StartAgent \/ ReadChain \/ AgentThrows \/ Kill \/ Tamper
           \/ AgentRemember \/ UNCHANGED agentVars
           \/ \E s \in Script : ScriptRemember(s)
           \/ \E s \in Script : OwnerReads(s) \/ UpdateReads(s) \/ Inject(s)
  <2>1. CASE StartAgent \/ ReadChain \/ AgentThrows \/ Kill
    BY <1>1, <1>4, <2>1, AgentStarts, ChainRead, AgentEnds, IdleTyped DEF Ends
  <2>2. CASE UNCHANGED agentVars
    BY <1>4, <2>2 DEF agentVars
  <2>3. CASE AgentRemember \/ Tamper \/ \E s \in Script : ScriptRemember(s)
    <3>1. UNCHANGED <<saved, evidence>> /\ (TakesOne \/ agent' = agent)
      BY <1>1, <2>3, AgentRemembers, ScriptRemembers, Tampers
    <3> QED BY <1>4, <3>1 DEF TakesOne
  <2>4. CASE \E s \in Script : OwnerReads(s) \/ UpdateReads(s) \/ Inject(s)
    BY <1>1, <1>4, <2>4, ScriptReads
  <2> QED BY <1>5, <2>1, <2>2, <2>3, <2>4
<1>6. CASE ReadExport
  <2>1. agent.pc = "export" /\ UNCHANGED <<saved, evidence>>
    BY <1>6 DEF ReadExport
  <2>2. agent'.cycle = agent.cycle
    <3> DEFINE d == EvaluateCycle(agent.valid, Visible)
    <3>1. agent' = [agent EXCEPT !.pc = "remember", !.decision = d,
                      !.todo = agent'.todo]
      BY <1>1, <1>6, ReadExportTyped
    <3> HIDE DEF d
    <3> QED BY <1>1, <3>1 DEF AgentStates
  <2> QED BY <1>4, <2>1, <2>2
<1>7. CASE WritePackage
  <2> DEFINE package == Package(agent.cycle, agent.decision, round)
  <2>1. /\ agent.pc = "remember" /\ agent'.cycle = agent.cycle
        /\ package.file = File(agent.cycle, agent.decision)
        /\ DOMAIN evidence' = DOMAIN evidence \cup {package.file}
        /\ \A f \in DOMAIN evidence' :
             evidence'[f] = IF f = package.file THEN package ELSE evidence[f]
        /\ UNCHANGED saved
    BY <1>1, <1>7, PackageWritten
  <2> HIDE DEF package
  <2>2. package.file[1] = agent.cycle
    BY <2>1 DEF File
  <2>3. agent.cycle > saved.cycles
        /\ (saved.cycles < KeepCycles => agent.cycle = saved.cycles + 1)
    BY <2>1 DEF DiskOK, CycleOK
  <2>4. CycleOK'
    BY <2>1, <2>3 DEF CycleOK
  <2>5. ASSUME NEW n \in 1 .. Len(saved.packages)
        PROVE  /\ saved.cycles < KeepCycles =>
                    saved.packages[n].file[1] <= saved.cycles
               /\ saved.packages[n].file[1] <= KeepCycles =>
                    /\ saved.packages[n].file \in DOMAIN evidence'
                    /\ evidence'[saved.packages[n].file] = saved.packages[n]
    <3>1. saved.packages[n] \in Packages /\ ListedOK(saved.packages[n])
      BY <1>3
    <3>2. saved.packages[n].file[1] <= KeepCycles =>
            saved.packages[n].file # package.file
      BY <1>1, <1>2, <2>2, <2>3, <3>1 DEF ListedOK
    <3> QED BY <2>1, <3>1, <3>2 DEF ListedOK
  <2> QED BY <2>1, <2>4, <2>5 DEF DiskOK, ListedOK
<1>8. CASE SaveState
  <2> DEFINE file == File(agent.cycle, agent.decision)
  <2>1. /\ agent.pc = "save" /\ file \in DOMAIN evidence
        /\ evidence[file] \in Packages /\ evidence[file].file = file
        /\ saved'.cycles = CyclesKept(saved.cycles)
        /\ \A i \in 1 .. Len(saved'.packages) :
             \/ saved'.packages[i] = evidence[file]
             \/ \E j \in 1 .. Len(saved.packages) :
                  saved'.packages[i] = saved.packages[j]
        /\ \/ agent'.pc = "idle"
           \/ agent'.pc = "chain" /\ agent'.cycle = agent.cycle + 1
        /\ UNCHANGED evidence
    BY <1>1, <1>8, StateSaved
  <2>2. file[1] = agent.cycle
    BY DEF File
  <2> HIDE DEF file
  <2>3. agent.cycle > saved.cycles
        /\ (saved.cycles < KeepCycles => agent.cycle = saved.cycles + 1)
    BY <2>1 DEF DiskOK, CycleOK
  <2>4. /\ saved'.cycles \in Nat /\ saved.cycles <= saved'.cycles
        /\ saved'.cycles <= saved.cycles + 1
        /\ saved'.cycles < KeepCycles =>
             saved.cycles < KeepCycles /\ saved'.cycles = saved.cycles + 1
    BY <1>1, <2>1 DEF CyclesKept, Least
  <2>5. CycleOK'
    BY <1>1, <2>1, <2>3, <2>4 DEF CycleOK
  <2> DEFINE Fits(p) ==
               /\ saved'.cycles < KeepCycles => p.file[1] <= saved'.cycles
               /\ p.file[1] <= KeepCycles =>
                    p.file \in DOMAIN evidence' /\ evidence'[p.file] = p
  <2>6. Fits(evidence[file])
    BY <1>1, <2>1, <2>2, <2>3, <2>4
  <2>7. \A j \in 1 .. Len(saved.packages) : Fits(saved.packages[j])
    BY <1>1, <1>2, <1>3, <2>1, <2>4 DEF ListedOK
  <2>8. \A i \in 1 .. Len(saved'.packages) : Fits(saved'.packages[i])
    <3> HIDE DEF Fits
    <3> QED BY <2>1, <2>6, <2>7
  <2> QED BY <2>5, <2>8 DEF DiskOK, ListedOK
<1> QED BY <1>5, <1>6, <1>7, <1>8 DEF AgentNext

\* The file of a package that state.json lists is that package, up to the
\* number where it begins to forget: the numbering of runCycle after any
\* restart, and after cycles that were cut short.
THEOREM ListedPackagesStay == AgentSpec => []ListedIsOnDisk
<1>1. AgentInit => DiskOK
  BY DiskInit
<1>2. Inv /\ DiskOK /\ [AgentNext]_agentVars => DiskOK'
  BY DiskStep
<1>3. DiskOK => ListedIsOnDisk
  BY DEF DiskOK, ListedOK, ListedIsOnDisk
<1> QED BY <1>1, <1>2, <1>3, AgentInvariant, PTL DEF AgentSpec

-----------------------------------------------------------------------------
(* Complete packages *)

Steps == {"source_selected", "source_visited"}

\* An entry of round r among the first n, as in Recorded.
In(mem, type, sources, r, n) ==
  \E i \in 1 .. n : /\ mem[i].round = r
                    /\ mem[i].type \in {type, "unauthorized"}
                    /\ mem[i].sources = sources

\* A brief is never the first entry, the one that tamper.py overwrites.
BriefIn(mem, sources, r, n) ==
  \E i \in 2 .. n : /\ mem[i].round = r
                    /\ mem[i].type = "brief_generated"
                    /\ mem[i].sources = sources

\* An entry that is still to be written.
ToDo(todo, type, sources, r) ==
  \E i \in 1 .. Len(todo) : /\ todo[i].round = r
                            /\ todo[i].type = type
                            /\ todo[i].sources = sources

\* What a package of p's decision holds of its round.
Whole(mem, p) ==
  /\ p.decision = "WAIT_FOR_OWNER" =>
       In(mem, "cycle_evaluated", << >>, p.round, p.length)
  /\ p.decision = "EXECUTE" =>
       \E so \in Seq(STRING) :
         /\ BriefIn(mem, so, p.round, p.length)
         /\ \A k \in 1 .. Len(so) : \A type \in Steps :
              In(mem, type, <<so[k]>>, p.round, p.length)

\* While no call of it has failed, a batch is in the memory or to be written.
Covered(mem, d, todo, r) ==
  /\ d = "WAIT_FOR_OWNER" =>
       \/ In(mem, "cycle_evaluated", << >>, r, Len(mem))
       \/ ToDo(todo, "cycle_evaluated", << >>, r)
  /\ d = "EXECUTE" =>
       /\ Len(mem) > 0
       /\ \E so \in Seq(STRING) :
            /\ \/ BriefIn(mem, so, r, Len(mem))
               \/ ToDo(todo, "brief_generated", so, r)
            /\ \A k \in 1 .. Len(so) : \A type \in Steps :
                 \/ In(mem, type, <<so[k]>>, r, Len(mem))
                 \/ ToDo(todo, type, <<so[k]>>, r)

CompleteOK ==
  /\ agent.pc = "remember" /\ ~ agent.failed =>
       Covered(memory, agent.decision, agent.todo, round)
  /\ \A f \in DOMAIN evidence : Whole(memory, evidence[f])
  /\ \A n \in 1 .. Len(saved.packages) : Whole(memory, saved.packages[n])

\* What was recorded stays recorded, tamper.py or not.
LEMMA RecordsStay ==
  ASSUME memory \in Seq(Entries), EntriesStay
  PROVE  \A n \in 0 .. Len(memory), m \in 0 .. Len(memory') : \A type, so, r :
           n <= m =>
             /\ In(memory, type, so, r, n) => In(memory', type, so, r, m)
             /\ BriefIn(memory, so, r, n) => BriefIn(memory', so, r, m)
<1> SUFFICES ASSUME NEW n \in 0 .. Len(memory), NEW m \in 0 .. Len(memory'),
                    NEW type, NEW so, NEW r, n <= m
             PROVE  /\ In(memory, type, so, r, n) => In(memory', type, so, r, m)
                    /\ BriefIn(memory, so, r, n) => BriefIn(memory', so, r, m)
  OBVIOUS
<1>1. /\ Len(memory) \in Nat /\ Len(memory') \in Nat
      /\ \A i \in 1 .. Len(memory) :
           \/ memory'[i] = memory[i]
           \/ i = 1 /\ memory'[i] = [memory[i] EXCEPT !.type = "unauthorized"]
  BY DEF EntriesStay
<1>2. ASSUME In(memory, type, so, r, n)
      PROVE  In(memory', type, so, r, m)
  <2>1. PICK i \in 1 .. n : /\ memory[i].round = r
                            /\ memory[i].type \in {type, "unauthorized"}
                            /\ memory[i].sources = so
    BY <1>2 DEF In
  <2>2. i \in 1 .. Len(memory) /\ i \in 1 .. m /\ memory[i] \in Entries
    BY <1>1
  <2>3. /\ memory'[i].round = r /\ memory'[i].sources = so
        /\ memory'[i].type \in {type, "unauthorized"}
    BY <1>1, <2>1, <2>2 DEF Entries
  <2> QED BY <2>2, <2>3 DEF In
<1>3. ASSUME BriefIn(memory, so, r, n)
      PROVE  BriefIn(memory', so, r, m)
  <2>1. PICK i \in 2 .. n : /\ memory[i].round = r
                            /\ memory[i].type = "brief_generated"
                            /\ memory[i].sources = so
    BY <1>3 DEF BriefIn
  <2>2. i \in 1 .. Len(memory) /\ i \in 2 .. m /\ i # 1
    BY <1>1
  <2>3. memory'[i] = memory[i]
    BY <1>1, <2>2
  <2> QED BY <2>1, <2>2, <2>3 DEF BriefIn
<1> QED BY <1>2, <1>3

LEMMA WholeStays ==
  ASSUME Typed, EntriesStay, NEW p \in Packages, PackageOK(p), Whole(memory, p)
  PROVE  Whole(memory', p)
<1>1. p.length \in 0 .. Len(memory) /\ p.length \in 0 .. Len(memory') /\ p.length <= p.length
  BY DEF PackageOK, Typed, EntriesStay, Packages
<1>2. memory \in Seq(Entries)
  BY DEF Typed
<1>3. \A type, so : /\ In(memory, type, so, p.round, p.length)
                         => In(memory', type, so, p.round, p.length)
                    /\ BriefIn(memory, so, p.round, p.length)
                         => BriefIn(memory', so, p.round, p.length)
  BY <1>1, <1>2, RecordsStay
<1> QED BY <1>3 DEF Whole

\* The first packages of a batch: everything is still to be written.
LEMMA BatchCovered ==
  ASSUME Typed, ReadExport
  PROVE  Covered(memory, EvaluateCycle(agent.valid, Visible), agent'.todo, round')
<1> DEFINE d == EvaluateCycle(agent.valid, Visible)
           so == LatestPolicy(Visible).sources
           r == round
           todo == agent'.todo
<1>1. /\ todo = Batch(d, so, r, Len(memory)) /\ round' = r
      /\ memory \in Seq(Entries) /\ Len(memory) \in Nat /\ r \in Nat
      /\ \A i \in 1 .. Len(todo) : todo[i].round = r
  BY ReadExportTyped DEF Typed
<1>2. CASE d = "WAIT_FOR_OWNER"
  <2>1. todo = <<WaitEntry(r, Len(memory))>>
    <3> HIDE DEF todo, d, so, r
    <3> QED BY <1>1, <1>2 DEF Batch
  <2>2. /\ WaitEntry(r, Len(memory)).type = "cycle_evaluated"
        /\ WaitEntry(r, Len(memory)).sources = << >>
        /\ WaitEntry(r, Len(memory)).round = r
    BY DEF WaitEntry, Entry
  <2> HIDE DEF todo, d, so, r
  <2>3. Len(todo) = 1 /\ todo[1] = WaitEntry(r, Len(memory))
    BY <2>1
  <2>4. ToDo(todo, "cycle_evaluated", << >>, r)
    BY <2>2, <2>3 DEF ToDo
  <2> QED BY <1>1, <1>2, <2>4 DEF Covered, d, todo
<1>3. CASE d = "EXECUTE"
  <2>1. so \in Seq(STRING) /\ LatestPolicy(Visible) # NoPolicy
    BY <1>1, <1>3, VisibleTyped, PolicyTyped DEF EvaluateCycle
  <2>2. Len(memory) > 0
    <3>1. Positions(Visible, Policies) # {}
      BY <1>1, <2>1, VisibleTyped, PolicyTyped
    <3>2. 1 .. Len(Visible) # {}
      BY <3>1 DEF Positions
    <3> QED BY <1>1, <3>2, VisibleTyped
  <2>3. todo = ResearchEntries(so, r, Len(memory))
    <3> HIDE DEF todo, d, so, r
    <3> QED BY <1>1, <1>3 DEF Batch
  <2> HIDE DEF todo, d, so, r
  <2>4. /\ Len(todo) = 2 * Len(so) + 1 /\ Len(so) \in Nat
        /\ \A k \in 1 .. Len(so) :
             /\ todo[2 * k - 1].type = "source_selected"
             /\ todo[2 * k].type = "source_visited"
             /\ todo[2 * k - 1].sources = <<so[k]>>
             /\ todo[2 * k].sources = <<so[k]>>
        /\ todo[2 * Len(so) + 1].type = "brief_generated"
        /\ todo[2 * Len(so) + 1].sources = so
    <3> DEFINE n == Len(memory)
    <3>1. n \in Nat /\ r \in Nat /\ so \in Seq(STRING)
      BY <1>1, <2>1
    <3>2. Len(so) \in Nat
      BY <3>1
    <3>3. todo = ResearchEntries(so, r, n)
      BY <2>3
    <3> HIDE DEF n
    <3>4. ASSUME NEW k \in 1 .. Len(so)
          PROVE  /\ todo[2 * k - 1].type = "source_selected"
                 /\ todo[2 * k].type = "source_visited"
                 /\ todo[2 * k - 1].sources = <<so[k]>>
                 /\ todo[2 * k].sources = <<so[k]>>
      BY ONLY <3>1, <3>3, <3>4, ResearchTyped
    <3>5. /\ Len(todo) = 2 * Len(so) + 1
          /\ todo[2 * Len(so) + 1].type = "brief_generated"
          /\ todo[2 * Len(so) + 1].sources = so
      BY ONLY <3>1, <3>3, ResearchTyped
    <3> QED BY ONLY <3>2, <3>4, <3>5
  <2>5. ToDo(todo, "brief_generated", so, r)
    <3>1. 2 * Len(so) + 1 \in 1 .. Len(todo)
      BY <2>4
    <3> QED BY <1>1, <2>4, <3>1 DEF ToDo
  <2>6. ASSUME NEW k \in 1 .. Len(so), NEW type \in Steps
        PROVE  ToDo(todo, type, <<so[k]>>, r)
    <3>1. 2 * k - 1 \in 1 .. Len(todo) /\ 2 * k \in 1 .. Len(todo)
      BY <2>4
    <3> QED BY <1>1, <2>4, <3>1 DEF ToDo, Steps
  <2> QED BY <1>1, <1>3, <2>1, <2>2, <2>5, <2>6 DEF Covered, d, todo
<1>4. CASE d \notin {"WAIT_FOR_OWNER", "EXECUTE"}
  BY <1>4 DEF Covered
<1> QED BY <1>2, <1>3, <1>4

\* The next entry of the batch goes from what is to be written into the memory.
LEMMA CoveredWrites ==
  ASSUME Typed, NEW e \in Entries, memory' = Append(memory, e),
         Len(agent.todo) \in Nat \ {0}, e = agent.todo[1],
         Len(agent'.todo) = Len(agent.todo) - 1,
         \A i \in 1 .. Len(agent.todo) - 1 : agent'.todo[i] = agent.todo[i + 1],
         NEW d, NEW r, Covered(memory, d, agent.todo, r)
  PROVE  Covered(memory', d, agent'.todo, r)
<1>1. /\ memory \in Seq(Entries) /\ Len(memory) \in Nat
      /\ EntriesStay /\ Len(memory') = Len(memory) + 1
      /\ memory'[Len(memory) + 1] = e
  BY MemoryGrown DEF Typed
<1>2. /\ Len(memory) \in 0 .. Len(memory) /\ Len(memory') \in 0 .. Len(memory')
      /\ Len(memory) <= Len(memory')
  BY <1>1
<1>3. \A type, so :
        /\ In(memory, type, so, r, Len(memory)) => In(memory', type, so, r, Len(memory'))
        /\ BriefIn(memory, so, r, Len(memory)) => BriefIn(memory', so, r, Len(memory'))
  BY <1>1, <1>2, RecordsStay
<1>4. ASSUME NEW type, NEW so, ToDo(agent.todo, type, so, r)
      PROVE  \/ e.round = r /\ e.type = type /\ e.sources = so
             \/ ToDo(agent'.todo, type, so, r)
  <2>1. PICK i \in 1 .. Len(agent.todo) : /\ agent.todo[i].round = r
                                          /\ agent.todo[i].type = type
                                          /\ agent.todo[i].sources = so
    BY <1>4 DEF ToDo
  <2>2. CASE i = 1
    BY <2>1, <2>2
  <2>3. CASE i # 1
    <3>1. i - 1 \in 1 .. Len(agent'.todo) /\ i - 1 \in 1 .. Len(agent.todo) - 1
          /\ (i - 1) + 1 = i
      BY <2>3
    <3>2. agent'.todo[i - 1] = agent.todo[i]
      BY <3>1
    <3> QED BY <2>1, <3>1, <3>2 DEF ToDo
  <2> QED BY <2>2, <2>3
<1>5. ASSUME NEW type, NEW so,
             In(memory, type, so, r, Len(memory)) \/ ToDo(agent.todo, type, so, r)
      PROVE  In(memory', type, so, r, Len(memory')) \/ ToDo(agent'.todo, type, so, r)
  <2>1. e.round = r /\ e.type = type /\ e.sources = so
          => In(memory', type, so, r, Len(memory'))
    <3>1. Len(memory) + 1 \in 1 .. Len(memory')
      BY <1>1
    <3> QED BY <1>1, <3>1 DEF In
  <2> QED BY <1>3, <1>4, <1>5, <2>1
<1>6. ASSUME NEW so, Len(memory) > 0,
             BriefIn(memory, so, r, Len(memory))
               \/ ToDo(agent.todo, "brief_generated", so, r)
      PROVE  BriefIn(memory', so, r, Len(memory'))
               \/ ToDo(agent'.todo, "brief_generated", so, r)
  <2>1. e.round = r /\ e.type = "brief_generated" /\ e.sources = so
          => BriefIn(memory', so, r, Len(memory'))
    <3>1. Len(memory) + 1 \in 2 .. Len(memory')
      BY <1>1, <1>6
    <3> QED BY <1>1, <3>1 DEF BriefIn
  <2> QED BY <1>3, <1>4, <1>6, <2>1
<1>7. Len(memory) > 0 => Len(memory') > 0
  BY <1>1
<1>8. CASE d = "WAIT_FOR_OWNER"
  BY <1>5, <1>8 DEF Covered
<1>9. CASE d = "EXECUTE"
  <2>1. Len(memory) > 0
    BY <1>9 DEF Covered
  <2>2. PICK so \in Seq(STRING) :
          /\ \/ BriefIn(memory, so, r, Len(memory))
             \/ ToDo(agent.todo, "brief_generated", so, r)
          /\ \A k \in 1 .. Len(so) : \A type \in Steps :
               \/ In(memory, type, <<so[k]>>, r, Len(memory))
               \/ ToDo(agent.todo, type, <<so[k]>>, r)
    BY <1>9 DEF Covered
  <2>3. \A k \in 1 .. Len(so) : \A type \in Steps :
          \/ In(memory', type, <<so[k]>>, r, Len(memory'))
          \/ ToDo(agent'.todo, type, <<so[k]>>, r)
    BY <1>5, <2>2
  <2>4. \/ BriefIn(memory', so, r, Len(memory'))
        \/ ToDo(agent'.todo, "brief_generated", so, r)
    BY <1>6, <2>1, <2>2
  <2> QED BY <1>7, <1>9, <2>1, <2>3, <2>4 DEF Covered
<1>10. CASE d \notin {"WAIT_FOR_OWNER", "EXECUTE"}
  BY <1>10 DEF Covered
<1> QED BY <1>8, <1>9, <1>10

\* Others write, or tamper.py does.
LEMMA CoveredStays ==
  ASSUME Typed, EntriesStay, NEW d, NEW todo, NEW r, Covered(memory, d, todo, r)
  PROVE  Covered(memory', d, todo, r)
<1>1. /\ memory \in Seq(Entries) /\ Len(memory) \in Nat /\ Len(memory') \in Nat
      /\ Len(memory) <= Len(memory')
  BY DEF Typed, EntriesStay
<1>2. Len(memory) \in 0 .. Len(memory) /\ Len(memory') \in 0 .. Len(memory')
  BY <1>1
<1>3. \A type, so :
        /\ In(memory, type, so, r, Len(memory)) => In(memory', type, so, r, Len(memory'))
        /\ BriefIn(memory, so, r, Len(memory)) => BriefIn(memory', so, r, Len(memory'))
  BY <1>1, <1>2, RecordsStay
<1>4. Len(memory) > 0 => Len(memory') > 0
  BY <1>1
<1>5. CASE d = "WAIT_FOR_OWNER"
  BY <1>3, <1>5 DEF Covered
<1>6. CASE d = "EXECUTE"
  BY <1>3, <1>4, <1>6 DEF Covered
<1>7. CASE d \notin {"WAIT_FOR_OWNER", "EXECUTE"}
  BY <1>7 DEF Covered
<1> QED BY <1>5, <1>6, <1>7

LEMMA CompleteStep ==
  ASSUME Inv, CompleteOK, [AgentNext]_agentVars
  PROVE  CompleteOK'
<1>1. /\ Typed /\ AgentOK /\ HistoryOK /\ PackagesOK /\ EntriesStay
      /\ agent \in AgentStates
  BY MemoryStays DEF Inv, Typed
<1>2. /\ \A f \in DOMAIN evidence : Whole(memory', evidence[f])
      /\ \A n \in 1 .. Len(saved.packages) : Whole(memory', saved.packages[n])
  <2>1. \A p \in Packages : PackageOK(p) /\ Whole(memory, p) => Whole(memory', p)
    BY <1>1, WholeStays
  <2>2. /\ \A f \in DOMAIN evidence :
             /\ evidence[f] \in Packages /\ PackageOK(evidence[f])
             /\ Whole(memory, evidence[f])
        /\ \A n \in 1 .. Len(saved.packages) :
             /\ saved.packages[n] \in Packages /\ PackageOK(saved.packages[n])
             /\ Whole(memory, saved.packages[n])
    BY <1>1 DEF Typed, PackagesOK, CompleteOK
  <2> QED BY <2>1, <2>2
<1>3. ASSUME UNCHANGED <<saved, evidence>>,
             agent'.pc = "remember" /\ ~ agent'.failed =>
               Covered(memory', agent'.decision, agent'.todo, round')
      PROVE  CompleteOK'
  BY <1>2, <1>3 DEF CompleteOK
<1>4. CASE StartAgent \/ ReadChain \/ AgentThrows \/ Kill
  <2>1. UNCHANGED <<saved, evidence>> /\ agent'.pc # "remember"
    BY <1>1, <1>4, AgentStarts, ChainRead, AgentEnds, IdleTyped DEF Ends
  <2> QED BY <2>1, <1>3
<1>5. CASE ReadExport
  <2> DEFINE d == EvaluateCycle(agent.valid, Visible)
  <2>1. /\ agent' = [agent EXCEPT !.pc = "remember", !.decision = d,
                       !.todo = agent'.todo]
        /\ UNCHANGED <<memory, saved, evidence>>
        /\ Covered(memory, d, agent'.todo, round')
    BY <1>1, <1>5, ReadExportTyped, BatchCovered
  <2> HIDE DEF d
  <2>2. agent'.decision = d /\ memory' = memory
    BY <1>1, <2>1 DEF AgentStates
  <2>3. Covered(memory', agent'.decision, agent'.todo, round')
    BY <2>1, <2>2
  <2> QED BY <2>1, <2>3, <1>3
<1>6. CASE AgentRemember
  <2> DEFINE e == agent.todo[1]
  <2>1. /\ TakesOne /\ agent'.failed = agent.failed /\ e \in AgentEntries
        /\ memory' = Append(memory, e) /\ UNCHANGED <<saved, evidence, round, during>>
    BY <1>1, <1>6, AgentRemembers
  <2>2. ASSUME ~ agent.failed
        PROVE  Covered(memory', agent.decision, agent'.todo, round)
    <3>1. Covered(memory, agent.decision, agent.todo, round)
      BY <2>1, <2>2 DEF CompleteOK, TakesOne
    <3>2. e \in Entries
      BY <2>1 DEF AgentEntries
    <3>3. /\ Len(agent.todo) \in Nat \ {0} /\ Len(agent'.todo) = Len(agent.todo) - 1
          /\ \A i \in 1 .. Len(agent.todo) - 1 : agent'.todo[i] = agent.todo[i + 1]
      BY <2>1 DEF TakesOne
    <3>4. e = agent.todo[1]
      OBVIOUS
    <3> HIDE DEF e
    <3> QED BY <1>1, <2>1, <3>1, <3>2, <3>3, <3>4, CoveredWrites
  <2> QED BY <2>1, <2>2, <1>3 DEF TakesOne
<1>7. CASE Tamper \/ \E s \in Script : ScriptRemember(s)
  <2>1. /\ UNCHANGED <<saved, evidence, round>>
        /\ agent' = agent \/ agent'.failed = TRUE
    BY <1>1, <1>7, ScriptRemembers, Tampers
  <2>2. agent' = agent /\ agent.pc = "remember" /\ ~ agent.failed =>
          Covered(memory', agent.decision, agent.todo, round)
    BY <1>1, CoveredStays DEF CompleteOK
  <2> QED BY <2>1, <2>2, <1>3
<1>8. CASE \/ UNCHANGED agentVars
           \/ \E s \in Script : OwnerReads(s) \/ UpdateReads(s) \/ Inject(s)
  <2>1. UNCHANGED <<agent, saved, evidence, round>>
    BY <1>1, <1>8, ScriptReads DEF agentVars
  <2>2. agent.pc = "remember" /\ ~ agent.failed =>
          Covered(memory', agent.decision, agent.todo, round)
    BY <1>1, CoveredStays DEF CompleteOK
  <2> QED BY <2>1, <2>2, <1>3
<1>9. CASE WritePackage
  <2> DEFINE package == Package(agent.cycle, agent.decision, round)
  <2>1. /\ agent.pc = "remember" /\ agent.todo = << >> /\ ~ agent.failed
        /\ package.decision = agent.decision /\ package.round = round
        /\ package.length = Len(memory)
        /\ DOMAIN evidence' = DOMAIN evidence \cup {package.file}
        /\ \A f \in DOMAIN evidence' :
             evidence'[f] = IF f = package.file THEN package ELSE evidence[f]
        /\ agent'.pc = "save" /\ UNCHANGED <<memory, saved>>
    BY <1>1, <1>9, PackageWritten
  <2> HIDE DEF package
  <2>2. Covered(memory, agent.decision, << >>, round)
    BY <2>1 DEF CompleteOK
  <2>3. \A type, so : ~ ToDo(<< >>, type, so, round)
    BY DEF ToDo
  <2>4. Whole(memory', package)
    BY <2>1, <2>2, <2>3 DEF Covered, Whole
  <2>5. \A f \in DOMAIN evidence' : Whole(memory', evidence'[f])
    BY <1>2, <2>1, <2>4
  <2> QED BY <1>2, <2>1, <2>5 DEF CompleteOK
<1>10. CASE SaveState
  <2> DEFINE file == File(agent.cycle, agent.decision)
  <2>1. /\ file \in DOMAIN evidence
        /\ \A i \in 1 .. Len(saved'.packages) :
             \/ saved'.packages[i] = evidence[file]
             \/ \E j \in 1 .. Len(saved.packages) :
                  saved'.packages[i] = saved.packages[j]
        /\ agent'.pc # "remember" /\ UNCHANGED evidence
    BY <1>1, <1>10, StateSaved
  <2> HIDE DEF file
  <2>2. \A i \in 1 .. Len(saved'.packages) : Whole(memory', saved'.packages[i])
    BY <1>2, <2>1
  <2> QED BY <1>2, <2>1, <2>2 DEF CompleteOK
<1> QED BY <1>4, <1>5, <1>6, <1>7, <1>8, <1>9, <1>10 DEF AgentNext

LEMMA CompleteInit ==
  ASSUME AgentInit
  PROVE  CompleteOK
<1>1. agent.pc = "idle"
  BY Beginnings, IdleTyped
<1>2. CASE saved = [cycles |-> 0, packages |-> << >>] /\ evidence = << >>
  <2>1. Len(saved.packages) = 0 /\ DOMAIN evidence = {}
    BY <1>2
  <2> QED BY <1>1, <2>1 DEF CompleteOK
<1>3. CASE /\ memory = <<Charter, Created, PolicyV1>>
           /\ saved = [cycles |-> 0, packages |-> <<Package(0, "IDLE", 0)>>]
           /\ evidence = [f \in {Package(0, "IDLE", 0).file} |-> Package(0, "IDLE", 0)]
  <2> DEFINE ready == Package(0, "IDLE", 0)
  <2>1. Whole(memory, ready)
    <3>1. ready.decision = "IDLE"
      BY <1>3, FirstPackage
    <3> HIDE DEF ready
    <3> QED BY <3>1 DEF Whole
  <2>2. /\ saved.packages = <<ready>> /\ evidence = [f \in {ready.file} |-> ready]
    BY <1>3
  <2> HIDE DEF ready
  <2>3. Len(<<ready>>) = 1 /\ <<ready>>[1] = ready
    OBVIOUS
  <2>4. \A n \in 1 .. Len(saved.packages) : saved.packages[n] = ready
    BY <2>2, <2>3
  <2>5. \A f \in DOMAIN evidence : evidence[f] = ready
    BY <2>2
  <2> QED BY <1>1, <2>1, <2>4, <2>5 DEF CompleteOK
<1> QED BY <1>2, <1>3, Beginnings

LEMMA CompleteIsListed ==
  ASSUME Inv, CompleteOK
  PROVE  ListedIsComplete
<1> SUFFICES ASSUME NEW n \in 1 .. Len(saved.packages)
             PROVE  LET p == saved.packages[n]
                    IN  /\ p.decision = "WAIT_FOR_OWNER" =>
                             Recorded("cycle_evaluated", << >>, p.round, p.length)
                        /\ p.decision = "EXECUTE" =>
                             \E i \in Positions(SubSeq(memory, 1, p.length),
                                                {"brief_generated"}) :
                               /\ memory[i].round = p.round
                               /\ \A k \in 1 .. Len(memory[i].sources) :
                                    \A type \in Steps :
                                      Recorded(type, <<memory[i].sources[k]>>,
                                               p.round, p.length)
  BY DEF ListedIsComplete, Steps
<1> DEFINE p == saved.packages[n]
<1>1. Whole(memory, p) /\ p \in Packages /\ PackageOK(p) /\ memory \in Seq(Entries)
  BY DEF CompleteOK, Inv, Typed, PackagesOK
<1> HIDE DEF p
<1>2. p.length \in 0 .. Len(memory) /\ Len(memory) \in Nat
  BY <1>1 DEF PackageOK
<1>3. \A type, so : In(memory, type, so, p.round, p.length)
                      => Recorded(type, so, p.round, p.length)
  BY DEF In, Recorded
<1>4. p.decision = "WAIT_FOR_OWNER" =>
        Recorded("cycle_evaluated", << >>, p.round, p.length)
  BY <1>1, <1>3 DEF Whole
<1>5. ASSUME p.decision = "EXECUTE"
      PROVE  \E i \in Positions(SubSeq(memory, 1, p.length), {"brief_generated"}) :
               /\ memory[i].round = p.round
               /\ \A k \in 1 .. Len(memory[i].sources) : \A type \in Steps :
                    Recorded(type, <<memory[i].sources[k]>>, p.round, p.length)
  <2>1. PICK so \in Seq(STRING) :
          /\ BriefIn(memory, so, p.round, p.length)
          /\ \A k \in 1 .. Len(so) : \A type \in Steps :
               In(memory, type, <<so[k]>>, p.round, p.length)
    BY <1>1, <1>5 DEF Whole
  <2>2. PICK i \in 2 .. p.length : /\ memory[i].round = p.round
                                   /\ memory[i].type = "brief_generated"
                                   /\ memory[i].sources = so
    BY <2>1 DEF BriefIn
  <2>3. i \in Positions(SubSeq(memory, 1, p.length), {"brief_generated"})
    <3>1. Positions(SubSeq(memory, 1, p.length), {"brief_generated"})
            = {j \in 1 .. p.length : memory[j].type \in {"brief_generated"}}
      BY <1>1, <1>2, FirstPositions
    <3>2. i \in 1 .. p.length
      BY <1>2
    <3> QED BY <2>2, <3>1, <3>2
  <2> QED BY <1>3, <2>1, <2>2, <2>3
<1> QED BY <1>4, <1>5 DEF p

\* A package that state.json lists holds every step of its cycle, whatever
\* calls were refused and whenever the agent was killed: runCycle writes it
\* after a batch of which no call has failed.
THEOREM ListedPackagesAreComplete == AgentSpec => []ListedIsComplete
<1>1. AgentInit => CompleteOK
  BY CompleteInit
<1>2. Inv /\ CompleteOK /\ [AgentNext]_agentVars => CompleteOK'
  BY CompleteStep
<1>3. Inv /\ CompleteOK => ListedIsComplete
  BY CompleteIsListed
<1> QED BY <1>1, <1>2, <1>3, AgentInvariant, PTL DEF AgentSpec

-----------------------------------------------------------------------------
(* Whoever writes an entry has decided on what it had read *)

IsRequest(mem, i) == mem[i].type = "action_requested"

Extends(e, p) ==
  e.version = p.version + 1 /\ e.sources = Append(p.sources, Addition)

\* A policy extends the latest one its writer had read.
ExtendsLatest(mem, e) ==
  \A i \in 1 .. Got(e) :
    /\ mem[i].type \in Policies
    /\ \A k \in i + 1 .. Got(e) : mem[k].type \notin Policies
    => Extends(e, mem[i])

\* The last request its writer had read was not resolved in what it had read.
FoundPending(mem, e) ==
  \E h \in 1 .. Got(e) :
    /\ mem[h].type \in {"action_requested", "unauthorized"}
    /\ \A l \in h + 1 .. Got(e) : mem[l].type \notin Resolutions
    /\ \A i \in 1 .. Got(e) : IsRequest(mem, i) => i <= h

\* Each request among the first n has a resolution among them.
Resolved(mem, n) ==
  \A i \in 1 .. n :
    IsRequest(mem, i) => \E j \in i + 1 .. n : mem[j].type \in Resolutions

Decided(mem, e) ==
  /\ e.type \in Policies => ExtendsLatest(mem, e)
  /\ e.type \in Resolutions => FoundPending(mem, e)
  /\ e.type \in Research => Resolved(mem, Got(e))

\* So it is of the entries written and of those about to be.
DecidedOK ==
  /\ \A k \in 1 .. Len(memory) : Decided(memory, memory[k])
  /\ \A k \in 1 .. Len(agent.todo) : Decided(memory, agent.todo[k])
  /\ \A s \in Script : \A k \in 1 .. Len(script[s]) : Decided(memory, script[s][k])

\* The type that tamper.py writes is no type of an event.
LEMMA TypesDiffer ==
  /\ \A e \in AgentEntries : e.type \notin Resolutions /\ e.type \notin Policies
                               /\ e.type # "action_requested"
  /\ \A e \in ScriptEntries : e.type \notin Research
  /\ "unauthorized" \notin Resolutions \cup Policies \cup Research
  /\ "action_requested" \notin Resolutions \cup Policies \cup Research
  /\ Resolutions \cap (Policies \cup Research) = {} /\ Policies \cap Research = {}
BY DEF AgentEntries, ScriptEntries, ScriptTypes, Resolutions, Policies, Research

\* A position that still has another type than the one tamper.py writes.
LEMMA PositionsStay ==
  ASSUME memory \in Seq(Entries), EntriesStay, NEW i \in 1 .. Len(memory),
         memory'[i].type # "unauthorized" \/ i # 1
  PROVE  memory'[i] = memory[i]
<1>1. memory[i] \in Entries
  OBVIOUS
<1> QED BY <1>1 DEF EntriesStay, Entries

LEMMA GotTyped ==
  ASSUME NEW e \in Entries
  PROVE  Got(e) \in Nat /\ Got(e) <= e.seen /\ e.seen \in Nat
<1>1. e.seen \in Nat /\ Window \in Nat
  BY AgentConstants DEF Entries
<1> QED BY <1>1, LeastIsMinimum DEF Got

\* What a writer had read stays, but for the type of the first entry.
LEMMA DecidedStays ==
  ASSUME memory \in Seq(Entries), EntriesStay, NEW e \in Entries,
         e.seen <= Len(memory), Decided(memory, e)
  PROVE  Decided(memory', e)
<1> DEFINE n == Got(e)
<1>1. n \in Nat /\ n <= Len(memory) /\ Len(memory) \in Nat
  BY GotTyped
<1>2. \A i \in 1 .. n : /\ i \in 1 .. Len(memory)
                        /\ \A k \in i + 1 .. n : k \in 1 .. Len(memory) /\ k # 1
  BY <1>1
<1>3. \A i \in 2 .. n : memory'[i] = memory[i]
  <2>1. \A i \in 2 .. n : i \in 1 .. Len(memory) /\ i # 1
    BY <1>1
  <2> QED BY <2>1, PositionsStay
<1>4. \A i \in 1 .. n : \A k \in i + 1 .. n : k \in 2 .. n
  BY <1>1
<1>5. \A i \in 1 .. n :
        \/ memory'[i] = memory[i]
        \/ memory'[i].type = "unauthorized"
  BY <1>2, PositionsStay
<1> HIDE DEF n
<1>6. \A i \in 1 .. n : IsRequest(memory', i) => IsRequest(memory, i)
  BY <1>5 DEF IsRequest
<1>7. ASSUME e.type \in Policies
      PROVE  ExtendsLatest(memory', e)
  <2>1. ExtendsLatest(memory, e)
    BY <1>7 DEF Decided
  <2>2. SUFFICES ASSUME NEW i \in 1 .. n, memory'[i].type \in Policies,
                        \A k \in i + 1 .. n : memory'[k].type \notin Policies
                 PROVE  Extends(e, memory'[i])
    BY DEF ExtendsLatest, n
  <2>3. memory'[i] = memory[i]
    BY <1>5, <2>2, TypesDiffer
  <2>4. \A k \in i + 1 .. n : memory[k].type \notin Policies
    BY <1>3, <1>4, <2>2
  <2> QED BY <2>1, <2>2, <2>3, <2>4 DEF ExtendsLatest, n
<1>8. ASSUME e.type \in Resolutions
      PROVE  FoundPending(memory', e)
  <2>1. PICK h \in 1 .. n :
          /\ memory[h].type \in {"action_requested", "unauthorized"}
          /\ \A l \in h + 1 .. n : memory[l].type \notin Resolutions
          /\ \A i \in 1 .. n : IsRequest(memory, i) => i <= h
    BY <1>8 DEF Decided, FoundPending, n
  <2>2. memory'[h].type \in {"action_requested", "unauthorized"}
    BY <1>5, <2>1
  <2>3. \A l \in h + 1 .. n : memory'[l].type \notin Resolutions
    BY <1>3, <1>4, <2>1
  <2>4. \A i \in 1 .. n : IsRequest(memory', i) => i <= h
    BY <1>6, <2>1
  <2> QED BY <2>2, <2>3, <2>4 DEF FoundPending, n
<1>9. ASSUME e.type \in Research
      PROVE  Resolved(memory', Got(e))
  <2>1. Resolved(memory, n)
    BY <1>9 DEF Decided, n
  <2>2. SUFFICES ASSUME NEW i \in 1 .. n, IsRequest(memory', i)
                 PROVE  \E j \in i + 1 .. n : memory'[j].type \in Resolutions
    BY DEF Resolved, n
  <2>3. PICK j \in i + 1 .. n : memory[j].type \in Resolutions
    BY <1>6, <2>1, <2>2 DEF Resolved
  <2> QED BY <1>3, <1>4, <2>3
<1> QED BY <1>7, <1>8, <1>9 DEF Decided

-----------------------------------------------------------------------------
(* What the readers decide *)

\* The latest policy is the last one.
LEMMA LatestIsLast ==
  ASSUME NEW events \in Seq(Entries), NEW i \in 1 .. Len(events),
         events[i].type \in Policies,
         \A k \in i + 1 .. Len(events) : events[k].type \notin Policies
  PROVE  LatestPolicy(events) = events[i]
<1> DEFINE found == Positions(events, Policies)
<1>1. i \in found /\ found \in SUBSET (1 .. Len(events)) /\ Len(events) \in Nat
  BY DEF Positions
<1>2. \A k \in found : k <= i
  <2>1. SUFFICES ASSUME NEW k \in found, i < k PROVE FALSE
    BY <1>1
  <2>2. k \in i + 1 .. Len(events) /\ events[k].type \in Policies
    BY <2>1, <1>1 DEF Positions
  <2> QED BY <2>2
<1>3. Last(found) = i
  <2>1. Last(found) \in found /\ \A k \in found : k <= Last(found)
    <3> HIDE DEF found
    <3>1. found # {}
      BY <1>1
    <3> QED BY <1>1, <3>1, LastIsGreatest
  <2>2. i <= Last(found) /\ Last(found) <= i
    BY <1>1, <1>2, <2>1
  <2>3. i \in Nat /\ Last(found) \in Nat
    BY <1>1, <2>1
  <2> QED BY <2>2, <2>3
<1>4. LatestPolicy(events) = events[Last(found)]
  BY <1>1 DEF LatestPolicy
<1> QED BY <1>3, <1>4

LEMMA SeenIsVisible ==
  ASSUME memory \in Seq(Entries), NEW e, e.seen = Len(memory)
  PROVE  Got(e) = Len(Visible)
BY VisibleTyped DEF Got

\* authorized-source-update.mjs extends the latest policy it reads.
LEMMA UpdateDecided ==
  ASSUME memory \in Seq(Entries), NEW e \in ScriptEntries, e.type = "policy_updated",
         e.seen = Len(memory), Extends(e, LatestPolicy(Visible))
  PROVE  Decided(memory, e)
<1>1. /\ Visible \in Seq(Entries) /\ Got(e) = Len(Visible)
      /\ \A i \in 1 .. Len(Visible) : Visible[i] = memory[i]
      /\ Len(Visible) \in Nat
  BY VisibleTyped, SeenIsVisible
<1>2. ExtendsLatest(memory, e)
  <2>1. SUFFICES ASSUME NEW i \in 1 .. Len(Visible), memory[i].type \in Policies,
                        \A k \in i + 1 .. Len(Visible) : memory[k].type \notin Policies
                 PROVE  Extends(e, memory[i])
    BY <1>1 DEF ExtendsLatest
  <2>2. \A k \in i + 1 .. Len(Visible) : k \in 1 .. Len(Visible)
    BY <1>1
  <2>3. LatestPolicy(Visible) = Visible[i]
    BY <1>1, <2>1, <2>2, LatestIsLast
  <2> QED BY <1>1, <2>3
<1>3. e.type \notin Resolutions /\ e.type \notin Research
  BY DEF Resolutions, Research
<1> QED BY <1>2, <1>3 DEF Decided

\* owner-approve.mjs and owner-reject.mjs resolve a request they find pending.
LEMMA ResolutionDecided ==
  ASSUME memory \in Seq(Entries), NEW e \in ScriptEntries,
         e.type = "owner_resolution", e.seen = Len(memory),
         PendingOwnerRequest(Visible)
  PROVE  Decided(memory, e)
<1> DEFINE requests == Positions(Visible, {"action_requested"})
           h == Last(requests)
<1>1. /\ Visible \in Seq(Entries) /\ Got(e) = Len(Visible)
      /\ \A i \in 1 .. Len(Visible) : Visible[i] = memory[i]
      /\ Len(Visible) \in Nat
  BY VisibleTyped, SeenIsVisible
<1>2. requests # {} /\ \A i \in Positions(Visible, Resolutions) : i < h
  BY DEF PendingOwnerRequest
<1>3. requests \in SUBSET (1 .. Len(Visible))
  BY DEF Positions
<1>4. h \in requests /\ \A i \in requests : i <= h
  <2> HIDE DEF requests
  <2> QED BY <1>1, <1>2, <1>3, LastIsGreatest
<1>5. h \in 1 .. Len(Visible) /\ memory[h].type = "action_requested"
  BY <1>1, <1>4 DEF Positions
<1> HIDE DEF h
<1>6. \A l \in h + 1 .. Len(Visible) : memory[l].type \notin Resolutions
  <2>1. SUFFICES ASSUME NEW l \in h + 1 .. Len(Visible),
                        memory[l].type \in Resolutions
                 PROVE  FALSE
    OBVIOUS
  <2>2. l \in 1 .. Len(Visible) /\ h < l /\ l \in Nat /\ h \in Nat
    BY <1>1, <1>5
  <2>3. l \in Positions(Visible, Resolutions)
    BY <1>1, <2>1, <2>2 DEF Positions
  <2> QED BY <1>2, <2>2, <2>3
<1>7. \A i \in 1 .. Len(Visible) : IsRequest(memory, i) => i <= h
  <2>1. \A i \in 1 .. Len(Visible) : IsRequest(memory, i) => i \in requests
    BY <1>1 DEF IsRequest, Positions
  <2> QED BY <1>4, <2>1
<1>8. FoundPending(memory, e)
  BY <1>1, <1>5, <1>6, <1>7 DEF FoundPending
<1>9. e.type \notin Policies /\ e.type \notin Research
  BY DEF Policies, Research
<1> QED BY <1>8, <1>9 DEF Decided

\* A decision to execute is taken on requests that are resolved.
LEMMA ExecutesResolved ==
  ASSUME memory \in Seq(Entries), EvaluateCycle(agent.valid, Visible) = "EXECUTE"
  PROVE  Resolved(memory, Len(Visible))
<1> DEFINE requests == Positions(Visible, {"action_requested"})
<1>1. /\ Visible \in Seq(Entries) /\ Len(Visible) \in Nat
      /\ \A i \in 1 .. Len(Visible) : Visible[i] = memory[i]
  BY VisibleTyped
<1>2. ~ PendingOwnerRequest(Visible)
  BY DEF EvaluateCycle
<1>3. SUFFICES ASSUME NEW i \in 1 .. Len(Visible), IsRequest(memory, i)
               PROVE  \E j \in i + 1 .. Len(Visible) : memory[j].type \in Resolutions
  BY DEF Resolved
<1>4. i \in requests /\ requests \in SUBSET (1 .. Len(Visible))
  BY <1>1, <1>3 DEF Positions, IsRequest
<1>5. Last(requests) \in requests /\ i <= Last(requests)
  <2> HIDE DEF requests
  <2>1. requests # {}
    BY <1>4
  <2> QED BY <1>1, <1>4, <2>1, LastIsGreatest
<1>6. PICK j \in Positions(Visible, Resolutions) : ~ (j < Last(requests))
  BY <1>2, <1>4 DEF PendingOwnerRequest
<1>7. /\ j \in 1 .. Len(Visible) /\ memory[j].type \in Resolutions
      /\ Last(requests) \in 1 .. Len(Visible)
      /\ memory[Last(requests)].type = "action_requested"
  BY <1>1, <1>4, <1>5, <1>6 DEF Positions
<1> HIDE DEF requests
<1>8. j # Last(requests)
  BY <1>7, TypesDiffer
<1>9. j \in i + 1 .. Len(Visible)
  <2>1. i \in Nat /\ j \in Nat /\ Last(requests) \in Nat
    BY <1>7
  <2> QED BY <1>5, <1>6, <1>7, <1>8, <2>1
<1> QED BY <1>7, <1>9

\* What a script is about to write.
LEMMA StagedDecided ==
  ASSUME Typed, NEW s \in Script, OwnerReads(s) \/ UpdateReads(s) \/ Inject(s)
  PROVE  \E e \in ScriptEntries :
           /\ script' = [script EXCEPT ![s] = <<e>>]
           /\ e.seen <= Len(memory) /\ Decided(memory, e)
<1>1. memory \in Seq(Entries) /\ Len(memory) \in Nat
  BY DEF Typed
<1>2. CASE OwnerReads(s)
  <2> DEFINE e == Entry("owner_resolution", 0, << >>, 0, Len(memory))
  <2>1. e.seen = Len(memory) /\ e.type = "owner_resolution"
    BY DEF Entry
  <2>2. e \in ScriptEntries /\ script' = [script EXCEPT ![s] = <<e>>]
        /\ PendingOwnerRequest(Visible)
    BY <1>1, <1>2, StagedTyped DEF OwnerReads, Stage
  <2> HIDE DEF e
  <2>3. Decided(memory, e)
    BY <1>1, <2>1, <2>2, ResolutionDecided
  <2>4. e.seen <= Len(memory)
    BY <1>1, <2>1
  <2> QED BY <2>2, <2>3, <2>4
<1>3. CASE UpdateReads(s)
  <2> DEFINE p == LatestPolicy(Visible)
             e == Entry("policy_updated", p.version + 1, Append(p.sources, Addition),
                        0, Len(memory))
  <2>1. /\ e.type = "policy_updated" /\ e.seen = Len(memory)
        /\ e.version = p.version + 1 /\ e.sources = Append(p.sources, Addition)
    BY DEF Entry
  <2>2. e \in ScriptEntries /\ script' = [script EXCEPT ![s] = <<e>>]
    BY <1>1, <1>3, StagedTyped DEF UpdateReads, Stage
  <2> HIDE DEF e
  <2>3. Extends(e, LatestPolicy(Visible))
    BY <2>1 DEF Extends
  <2>4. Decided(memory, e)
    BY <1>1, <2>1, <2>2, <2>3, UpdateDecided
  <2>5. e.seen <= Len(memory)
    BY <1>1, <2>1
  <2> QED BY <2>2, <2>4, <2>5
<1>4. CASE Inject(s)
  <2> DEFINE e == Entry("action_requested", 0, << >>, 0, 0)
  <2>1. e.type = "action_requested" /\ e.seen = 0
    BY DEF Entry
  <2>2. e \in ScriptEntries /\ script' = [script EXCEPT ![s] = <<e>>]
    BY <1>1, <1>4, StagedTyped DEF Inject, Stage
  <2> HIDE DEF e
  <2>3. e.type \notin Policies \cup Resolutions \cup Research
    BY <2>1, TypesDiffer
  <2>4. Decided(memory, e)
    BY <2>3 DEF Decided
  <2>5. e.seen <= Len(memory)
    BY <1>1, <2>1
  <2> QED BY <2>2, <2>4, <2>5
<1> QED BY <1>2, <1>3, <1>4

\* What the agent has to write once it has decided.
LEMMA BatchDecided ==
  ASSUME Typed, ReadExport
  PROVE  \A k \in 1 .. Len(agent'.todo) : Decided(memory, agent'.todo[k])
<1> DEFINE d == EvaluateCycle(agent.valid, Visible)
           so == LatestPolicy(Visible).sources
           todo == agent'.todo
<1>1. /\ todo = Batch(d, so, round, Len(memory)) /\ d \in Decisions
      /\ todo \in Seq(AgentEntries)
      /\ \A k \in 1 .. Len(todo) : todo[k].seen = Len(memory)
      /\ memory \in Seq(Entries)
  BY ReadExportTyped DEF Typed
<1>2. d = "EXECUTE" => Resolved(memory, Len(Visible))
  BY <1>1, ExecutesResolved
<1> HIDE DEF d, so, todo
<1>3. \A k \in 1 .. Len(todo) : todo[k] \in AgentEntries
  BY <1>1
<1>4. \A k \in 1 .. Len(todo) : Got(todo[k]) = Len(Visible)
  BY <1>1, SeenIsVisible
<1>5. ASSUME NEW k \in 1 .. Len(todo), todo[k].type \in Research
      PROVE  d = "EXECUTE"
  <2>1. d # "STOP_BY_INTEGRITY"
    <3>1. Batch("STOP_BY_INTEGRITY", so, round, Len(memory)) = << >>
      BY DEF Batch
    <3>2. Len(<< >>) = 0
      OBVIOUS
    <3> QED BY <1>1, <1>5, <3>1, <3>2
  <2>2. d # "WAIT_FOR_OWNER"
    <3>1. Batch("WAIT_FOR_OWNER", so, round, Len(memory))
            = <<WaitEntry(round, Len(memory))>>
      BY DEF Batch
    <3>2. WaitEntry(round, Len(memory)).type \notin Research
      BY DEF WaitEntry, Entry, Research
    <3>3. SUFFICES ASSUME todo = <<WaitEntry(round, Len(memory))>> PROVE FALSE
      BY <1>1, <3>1
    <3>4. k = 1 /\ todo[1] = WaitEntry(round, Len(memory))
      BY <3>3
    <3> QED BY <1>5, <3>2, <3>4
  <2> QED BY <1>1, <2>1, <2>2 DEF Decisions
<1>6. \A k \in 1 .. Len(todo) : Decided(memory, todo[k])
  BY <1>2, <1>3, <1>4, <1>5, TypesDiffer DEF Decided
<1> QED BY <1>6 DEF todo

-----------------------------------------------------------------------------
(* It stays so *)

Known(e) == e \in Entries /\ e.seen <= Len(memory) /\ Decided(memory, e)

LEMMA DecidedKept ==
  ASSUME Inv, DecidedOK, EntriesStay,
         \A k \in Len(memory) + 1 .. Len(memory') : Known(memory'[k]),
         \A k \in 1 .. Len(agent'.todo) : Known(agent'.todo[k]),
         \A s \in Script : \A k \in 1 .. Len(script'[s]) : Known(script'[s][k])
  PROVE  DecidedOK'
<1>1. memory \in Seq(Entries) /\ Len(memory) \in Nat /\ HistoryOK
      /\ memory' \in Seq(Entries) /\ Len(memory') \in Nat /\ Len(memory) <= Len(memory')
  BY DEF Inv, Typed, EntriesStay
<1>2. \A e : Known(e) => Decided(memory', e)
  BY <1>1, DecidedStays DEF Known
<1>3. ASSUME NEW k \in 1 .. Len(memory')
      PROVE  Decided(memory', memory'[k])
  <2>1. CASE k \in 1 .. Len(memory) /\ memory'[k] = memory[k]
    <3>1. memory[k] \in Entries /\ memory[k].seen < k
      BY <1>1, <2>1 DEF HistoryOK
    <3>2. memory[k].seen <= Len(memory)
      <4>1. memory[k].seen \in Nat
        BY <3>1 DEF Entries
      <4> QED BY <1>1, <2>1, <3>1, <4>1
    <3>3. Decided(memory, memory[k])
      BY <2>1 DEF DecidedOK
    <3> QED BY <1>2, <2>1, <3>1, <3>2, <3>3 DEF Known
  <2>2. CASE k \in 1 .. Len(memory) /\ memory'[k] # memory[k]
    <3>1. memory'[k].type = "unauthorized"
      BY <1>1, <2>2, PositionsStay
    <3> QED BY <3>1, TypesDiffer DEF Decided
  <2>3. CASE k \notin 1 .. Len(memory)
    <3>1. k \in Len(memory) + 1 .. Len(memory')
      BY <1>1, <2>3
    <3> QED BY <1>2, <3>1
  <2> QED BY <2>1, <2>2, <2>3
<1>4. \A k \in 1 .. Len(agent'.todo) : Decided(memory', agent'.todo[k])
  BY <1>2
<1>5. \A s \in Script : \A k \in 1 .. Len(script'[s]) : Decided(memory', script'[s][k])
  BY <1>2
<1> QED BY <1>3, <1>4, <1>5 DEF DecidedOK

LEMMA AllKnown ==
  ASSUME Inv, DecidedOK
  PROVE  /\ \A k \in 1 .. Len(agent.todo) : Known(agent.todo[k])
         /\ \A s \in Script : \A k \in 1 .. Len(script[s]) : Known(script[s][k])
<1>1. /\ agent.todo \in Seq(AgentEntries) /\ script \in [Script -> Calls]
      /\ HistoryOK
  BY DEF Inv, Typed, AgentStates
<1>2. ASSUME NEW k \in 1 .. Len(agent.todo)
      PROVE  Known(agent.todo[k])
  <2>1. agent.todo[k] \in Entries
    BY <1>1 DEF AgentEntries
  <2> QED BY <1>1, <2>1 DEF Known, HistoryOK, DecidedOK
<1>3. ASSUME NEW s \in Script, NEW k \in 1 .. Len(script[s])
      PROVE  Known(script[s][k])
  <2>1. PICK e \in ScriptEntries : script[s] = <<e>>
    <3>1. script[s] # << >>
      <4>1. Len(<< >>) = 0
        OBVIOUS
      <4> QED BY <4>1
    <3> QED BY <1>1, <3>1 DEF Calls
  <2>2. Len(<<e>>) = 1 /\ <<e>>[1] = e
    OBVIOUS
  <2>3. script[s][k] \in Entries
    BY <2>1, <2>2 DEF ScriptEntries
  <2> QED BY <1>1, <2>3 DEF Known, HistoryOK, DecidedOK
<1> QED BY <1>2, <1>3

LEMMA DecidedStep ==
  ASSUME Inv, DecidedOK, [AgentNext]_agentVars
  PROVE  DecidedOK'
<1>1. /\ Typed /\ AgentOK /\ memory \in Seq(Entries) /\ Len(memory) \in Nat
      /\ EntriesStay
  BY MemoryStays DEF Inv, Typed
<1>2. /\ \A k \in 1 .. Len(agent.todo) : Known(agent.todo[k])
      /\ \A s \in Script : \A k \in 1 .. Len(script[s]) : Known(script[s][k])
  BY AllKnown
<1>3. Refusals => \A s \in Script : \A k \in 1 .. Len(script'[s]) : Known(script'[s][k])
  <2>1. Len(<< >>) = 0
    OBVIOUS
  <2> QED BY <1>2, <2>1 DEF Refusals
<1>4. TakesOne \/ agent' = agent =>
        \A k \in 1 .. Len(agent'.todo) : Known(agent'.todo[k])
  <2>1. CASE TakesOne
    <3>1. \A k \in 1 .. Len(agent'.todo) :
            k + 1 \in 1 .. Len(agent.todo) /\ agent'.todo[k] = agent.todo[k + 1]
      BY <2>1 DEF TakesOne
    <3> QED BY <1>2, <3>1
  <2>2. CASE agent' = agent
    BY <1>2, <2>2
  <2> QED BY <2>1, <2>2
<1>5. CASE \/ StartAgent \/ ReadChain \/ AgentThrows \/ Kill \/ WritePackage
           \/ SaveState \/ UNCHANGED agentVars
  <2>1. /\ UNCHANGED <<memory, script>>
        /\ agent'.todo = << >> \/ agent'.todo = agent.todo
    <3>1. CASE UNCHANGED agentVars
      BY <3>1 DEF agentVars
    <3> QED BY <1>1, <1>5, <3>1, AgentStarts, ChainRead, AgentEnds, IdleTyped,
               PackageWritten, StateSaved DEF Ends
  <2>2. \A k \in 1 .. Len(agent'.todo) : Known(agent'.todo[k])
    <3>1. Len(<< >>) = 0
      OBVIOUS
    <3> QED BY <1>2, <2>1, <3>1
  <2>3. \A k \in Len(memory) + 1 .. Len(memory') : FALSE
    BY <1>1, <2>1
  <2> QED BY <1>1, <1>2, <2>1, <2>2, <2>3, DecidedKept
<1>6. CASE ReadExport
  <2>1. /\ UNCHANGED <<memory, script>> /\ agent'.todo \in Seq(AgentEntries)
        /\ \A k \in 1 .. Len(agent'.todo) : agent'.todo[k].seen = Len(memory)
    BY <1>1, <1>6, ReadExportTyped
  <2>2. \A k \in 1 .. Len(agent'.todo) : Known(agent'.todo[k])
    <3>1. \A k \in 1 .. Len(agent'.todo) : agent'.todo[k] \in Entries
      BY <2>1 DEF AgentEntries
    <3> QED BY <1>1, <1>6, <2>1, <3>1, BatchDecided DEF Known
  <2>3. \A k \in Len(memory) + 1 .. Len(memory') : FALSE
    BY <1>1, <2>1
  <2> QED BY <1>1, <1>2, <2>1, <2>2, <2>3, DecidedKept
<1>7. ASSUME NEW e, Known(e), memory' = Append(memory, e), Refusals,
             TakesOne \/ agent' = agent
      PROVE  DecidedOK'
  <2>1. Len(memory') = Len(memory) + 1 /\ memory'[Len(memory) + 1] = e
    BY <1>1, <1>7, MemoryGrown DEF Known
  <2>2. \A k \in Len(memory) + 1 .. Len(memory') : memory'[k] = e
    BY <1>1, <2>1
  <2> QED BY <1>1, <1>3, <1>4, <1>7, <2>2, DecidedKept
<1>8. CASE AgentRemember
  <2>1. /\ TakesOne /\ memory' = Append(memory, agent.todo[1]) /\ Refusals
    BY <1>1, <1>8, AgentRemembers
  <2>2. 1 \in 1 .. Len(agent.todo)
    BY <2>1 DEF TakesOne
  <2> QED BY <1>2, <1>7, <2>1, <2>2
<1>9. CASE \E s \in Script : ScriptRemember(s)
  <2>1. PICK s \in Script : ScriptRemember(s)
    BY <1>9
  <2>2. PICK e \in ScriptEntries : script[s] = <<e>> /\ memory' = Append(memory, e)
    BY <1>1, <2>1, ScriptRemembers
  <2>3. Refusals /\ (TakesOne \/ agent' = agent)
    BY <1>1, <2>1, ScriptRemembers
  <2>4. 1 \in 1 .. Len(script[s]) /\ script[s][1] = e
    BY <2>2
  <2>5. Known(e)
    BY <1>2, <2>4
  <2> QED BY <1>7, <2>2, <2>3, <2>5
<1>10. CASE \E s \in Script : OwnerReads(s) \/ UpdateReads(s) \/ Inject(s)
  <2>1. PICK s \in Script : OwnerReads(s) \/ UpdateReads(s) \/ Inject(s)
    BY <1>10
  <2>2. PICK e \in ScriptEntries :
          /\ script' = [script EXCEPT ![s] = <<e>>]
          /\ e.seen <= Len(memory) /\ Decided(memory, e)
    BY <1>1, <2>1, StagedDecided
  <2>3. UNCHANGED <<memory, agent>>
    BY <1>1, <2>1, ScriptReads
  <2>4. Known(e)
    BY <2>2 DEF Known, ScriptEntries
  <2>5. \A t \in Script : script'[t] = IF t = s THEN <<e>> ELSE script[t]
    BY <1>1, <2>2 DEF Typed
  <2>6. ASSUME NEW t \in Script, NEW k \in 1 .. Len(script'[t])
        PROVE  Known(script'[t][k])
    <3>1. CASE t = s
      <4>1. Len(<<e>>) = 1 /\ <<e>>[1] = e
        OBVIOUS
      <4>2. script'[t] = <<e>>
        BY <2>5, <3>1
      <4>3. script'[t][k] = e
        BY <4>1, <4>2
      <4> QED BY <2>4, <4>3
    <3>2. CASE t # s
      BY <1>2, <2>5, <3>2
    <3> QED BY <3>1, <3>2
  <2>7. \A k \in Len(memory) + 1 .. Len(memory') : FALSE
    BY <1>1, <2>3
  <2>8. \A k \in 1 .. Len(agent'.todo) : Known(agent'.todo[k])
    BY <1>4, <2>3
  <2> QED BY <1>1, <2>6, <2>7, <2>8, DecidedKept
<1>11. CASE Tamper
  <2>1. Refusals /\ (TakesOne \/ agent' = agent)
    BY <1>1, <1>11, Tampers
  <2>2. \A k \in Len(memory) + 1 .. Len(memory') : FALSE
    BY <1>1, <1>11, MemoryEdited
  <2> QED BY <1>1, <1>3, <1>4, <2>1, <2>2, DecidedKept
<1> QED BY <1>5, <1>6, <1>8, <1>9, <1>10, <1>11 DEF AgentNext

LEMMA DecidedInit ==
  ASSUME AgentInit
  PROVE  DecidedOK
<1>1. Len(<< >>) = 0 /\ agent.todo = << >> /\ \A s \in Script : script[s] = << >>
  BY Beginnings, IdleTyped
<1>2. \A k \in 1 .. Len(memory) : Decided(memory, memory[k])
  <2>1. CASE memory = << >>
    BY <2>1
  <2>2. CASE memory = <<Charter, Created, PolicyV1>>
    <3>1. \A k \in 1 .. Len(memory) : memory[k] \in {Charter, Created, PolicyV1}
      <4>1. Len(memory) = 3 /\ memory[1] = Charter /\ memory[2] = Created
            /\ memory[3] = PolicyV1
        BY <2>2
      <4> QED BY <4>1
    <3>2. SUFFICES ASSUME NEW e \in {Charter, Created, PolicyV1}
                   PROVE  Decided(memory, e)
      BY <3>1
    <3>3. Got(e) = 0
      <4>1. e \in Entries /\ e.seen = 0
        BY FirstEntries
      <4> QED BY <4>1, GotTyped
    <3>4. ExtendsLatest(memory, e)
      BY <3>3 DEF ExtendsLatest
    <3>5. e.type \notin Resolutions \cup Research
      BY FirstEntries DEF Resolutions, Research
    <3> QED BY <3>4, <3>5 DEF Decided
  <2> QED BY <2>1, <2>2, Beginnings
<1> QED BY <1>1, <1>2 DEF DecidedOK

LEMMA DecidedInvariant == AgentSpec => [](Inv /\ DecidedOK)
<1>1. AgentInit => DecidedOK
  BY DecidedInit
<1>2. Inv /\ DecidedOK /\ [AgentNext]_agentVars => DecidedOK'
  BY DecidedStep
<1> QED BY <1>1, <1>2, AgentInvariant, PTL DEF AgentSpec

-----------------------------------------------------------------------------
(* Policies, requests and resolutions *)

LEMMA EntryRead ==
  ASSUME Inv, NEW k \in 1 .. Len(memory)
  PROVE  /\ memory[k] \in Entries /\ memory \in Seq(Entries) /\ Len(memory) \in Nat
         /\ Got(memory[k]) \in 0 .. Len(memory) /\ Got(memory[k]) < k
<1>1. memory \in Seq(Entries) /\ Len(memory) \in Nat /\ memory[k] \in Entries
      /\ memory[k].seen < k
  BY DEF Inv, Typed, HistoryOK
<1> QED BY <1>1, GotTyped

LEMMA UpdatesExtend ==
  ASSUME Inv, DecidedOK
  PROVE  LostOnlyToOverlap
<1> SUFFICES ASSUME NEW i \in Positions(memory, Policies),
                    NEW j \in Positions(memory, Policies), i < j,
                    Positions(SubSeq(memory, i + 1, j - 1), Policies) = {},
                    i <= Got(memory[j])
             PROVE  Extends(memory[j], memory[i])
  BY DEF LostOnlyToOverlap, Extends
<1>1. /\ i \in 1 .. Len(memory) /\ j \in 1 .. Len(memory)
      /\ memory[i].type \in Policies /\ memory[j].type \in Policies
  BY DEF Positions
<1>2. /\ memory \in Seq(Entries) /\ Len(memory) \in Nat
      /\ Got(memory[j]) \in 0 .. Len(memory) /\ Got(memory[j]) < j
  BY <1>1, EntryRead
<1>3. \A k \in i + 1 .. j - 1 : memory[k].type \notin Policies
  <2> DEFINE between == SubSeq(memory, i + 1, j - 1)
  <2>1. \A k \in i + 1 .. j - 1 : memory[k] \in Entries
    BY <1>1, <1>2
  <2>2. /\ Len(between) = IF i + 1 <= j - 1 THEN (j - 1) - (i + 1) + 1 ELSE 0
        /\ \A k \in 1 .. (j - 1) - (i + 1) + 1 : between[k] = memory[(i + 1) + k - 1]
    BY <1>1, <1>2, <2>1, SubSeqProperties
  <2>3. SUFFICES ASSUME NEW k \in i + 1 .. j - 1, memory[k].type \in Policies
                 PROVE  FALSE
    OBVIOUS
  <2>4. /\ k - i \in 1 .. (j - 1) - (i + 1) + 1 /\ k - i \in 1 .. Len(between)
        /\ (i + 1) + (k - i) - 1 = k
    BY <1>1, <2>2
  <2>5. between[k - i] = memory[k]
    BY <2>2, <2>4
  <2> HIDE DEF between
  <2>6. k - i \in Positions(between, Policies)
    BY <2>3, <2>4, <2>5 DEF Positions
  <2> QED BY <2>6 DEF between
<1>4. ExtendsLatest(memory, memory[j])
  BY <1>1 DEF DecidedOK, Decided
<1>5. i \in 1 .. Got(memory[j])
      /\ \A k \in i + 1 .. Got(memory[j]) : k \in i + 1 .. j - 1
  BY <1>1, <1>2
<1> QED BY <1>1, <1>3, <1>4, <1>5 DEF ExtendsLatest

\* Any number of scripts side by side, with the agent and tamper.py: the update
\* that authorized-source-update.mjs writes takes over every source of the
\* policy before it, unless that one was not among what the script had read.
THEOREM UpdatesAreLostToOverlapOnly == AgentSpec => []LostOnlyToOverlap
<1>1. Inv /\ DecidedOK => LostOnlyToOverlap
  BY UpdatesExtend
<1> QED BY <1>1, DecidedInvariant, PTL

LEMMA ResearchIsOwnerReviewed ==
  ASSUME Inv, DecidedOK
  PROVE  OwnerReviewed
<1> SUFFICES ASSUME NEW k \in Positions(memory, Research),
                    NEW i \in Positions(SubSeq(memory, 1, Got(memory[k])),
                                        {"action_requested"})
             PROVE  \E j \in i + 1 .. Got(memory[k]) :
                      /\ memory[j].type \in Resolutions
                      /\ \E h \in 1 .. Got(memory[j]) :
                           /\ memory[h].type \in {"action_requested", "unauthorized"}
                           /\ \A l \in h + 1 .. Got(memory[j]) :
                                memory[l].type \notin Resolutions
                           /\ i <= h \/ Got(memory[j]) < i
  BY DEF OwnerReviewed
<1>1. k \in 1 .. Len(memory) /\ memory[k].type \in Research
  BY DEF Positions
<1>2. /\ memory \in Seq(Entries) /\ Len(memory) \in Nat
      /\ Got(memory[k]) \in 0 .. Len(memory)
  BY <1>1, EntryRead
<1>3. i \in {j \in 1 .. Got(memory[k]) : memory[j].type \in {"action_requested"}}
  BY <1>2, FirstPositions
<1>4. Resolved(memory, Got(memory[k]))
  BY <1>1 DEF DecidedOK, Decided
<1>5. PICK j \in i + 1 .. Got(memory[k]) : memory[j].type \in Resolutions
  BY <1>3, <1>4 DEF Resolved, IsRequest
<1>6. j \in 1 .. Len(memory)
  BY <1>2, <1>3
<1>7. FoundPending(memory, memory[j])
  BY <1>5, <1>6 DEF DecidedOK, Decided
<1>8. PICK h \in 1 .. Got(memory[j]) :
        /\ memory[h].type \in {"action_requested", "unauthorized"}
        /\ \A l \in h + 1 .. Got(memory[j]) : memory[l].type \notin Resolutions
        /\ \A m \in 1 .. Got(memory[j]) : IsRequest(memory, m) => m <= h
  BY <1>7 DEF FoundPending
<1>9. i <= h \/ Got(memory[j]) < i
  <2>1. Got(memory[j]) \in Nat /\ i \in Nat \ {0}
    BY <1>3, <1>6, EntryRead
  <2>2. ~ (Got(memory[j]) < i) => i \in 1 .. Got(memory[j])
    BY <2>1
  <2> QED BY <1>3, <1>8, <2>2 DEF IsRequest
<1> QED BY <1>5, <1>8, <1>9

\* Any number of scripts side by side: the agent does research over a request
\* that it reads only after a resolution, by an owner who had found a request
\* pending: that one or a later one, unless that one was recorded meanwhile.
THEOREM ResearchIsReviewed == AgentSpec => []OwnerReviewed
<1>1. Inv /\ DecidedOK => OwnerReviewed
  BY ResearchIsOwnerReviewed
<1> QED BY <1>1, DecidedInvariant, PTL
=============================================================================
