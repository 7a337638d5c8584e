---------------------------- MODULE EditedProofs ----------------------------
(***************************************************************************)
(* Proofs about the ledger whose file is also edited behind the server's   *)
(* back: what one hash in the keychain pins down, and what the operations  *)
(* that compare it accept.  They hold for any set of processes, contents   *)
(* and clock readings, with crashes, keychain failures and any number of   *)
(* edits.                                                                  *)
(***************************************************************************)
EXTENDS EditedLedger, StrictProofs, WellFoundedInduction

-----------------------------------------------------------------------------
(* Induction along a table, through the least index that breaks a claim *)

\* A set of naturals that is not empty has a least element.
LEMMA LeastElement ==
  ASSUME NEW T \in SUBSET Nat, T # {}
  PROVE  \E m \in T : \A n \in T : m <= n
<1> DEFINE Less == {ss \in Nat \X Nat : ss[1] < ss[2]}
<1>1. IsWellFoundedOn(Less, Nat)
  BY NatLessThanWellFounded DEF OpToRel
<1>2. PICK m \in T : \A n \in T : <<n, m>> \notin Less
  <2> HIDE DEF Less
  <2> QED BY <1>1, WFMin
<1>3. \A n \in T : ~ (n < m)
  BY <1>2
<1> QED BY <1>3

\* Appending is injective: the one property of sha256 the chain relies on.
LEMMA AppendRowInjective ==
  ASSUME NEW S, NEW s \in Seq(S), NEW t \in Seq(S), NEW a \in S, NEW b \in S,
         Append(s, a) = Append(t, b)
  PROVE  s = t /\ a = b
<1>1. Len(s) = Len(t)
  <2>1. Len(Append(s, a)) = Len(s) + 1 /\ Len(Append(t, b)) = Len(t) + 1
    OBVIOUS
  <2> QED BY <2>1
<1>2. \A i \in 1 .. Len(s) : s[i] = t[i]
  <2>1. \A i \in 1 .. Len(s) : Append(s, a)[i] = s[i] /\ Append(t, b)[i] = t[i]
    BY <1>1
  <2> QED BY <2>1
<1>3. a = b
  <2>1. Append(s, a)[Len(s) + 1] = a /\ Append(t, b)[Len(t) + 1] = b
    OBVIOUS
  <2> QED BY <1>1, <2>1
<1> QED BY <1>1, <1>2, <1>3

\* Two valid rows with one entry hash are one row.
LEMMA HashPinsRow ==
  ASSUME NEW r \in Row, NEW s \in Row, ContentValid(r), ContentValid(s),
         EntryHashValid(r), EntryHashValid(s), r.entryHash = s.entryHash
  PROVE  r = s
<1> DEFINE stamp(x) == [contentHash |-> x.contentHash, createdAt |-> x.createdAt]
<1>1. \A x \in Row : x.prevHash \in Seq(Stamp) /\ stamp(x) \in Stamp
  BY DEF Row, Hash, Stamp
<1>2. Append(r.prevHash, stamp(r)) = Append(s.prevHash, stamp(s))
  BY DEF EntryHashValid, HashEntry
<1> HIDE DEF stamp
<1>3. r.prevHash = s.prevHash /\ stamp(r) = stamp(s)
  BY <1>1, <1>2, AppendRowInjective
<1>4. r.contentHash = s.contentHash /\ r.createdAt = s.createdAt
  BY <1>3 DEF stamp
<1>5. r.content = s.content
  <2>1. r.contentHash = [sha256 |-> r.content] /\ s.contentHash = [sha256 |-> s.content]
    BY DEF ContentValid, HashContent
  <2>2. r.contentHash.sha256 = r.content /\ s.contentHash.sha256 = s.content
    BY <2>1
  <2> QED BY <1>4, <2>2
<1> QED BY <1>3, <1>4, <1>5 DEF Row

\* In a table that verifies, an entry hash is as long as its position.
LEMMA IntactLength ==
  ASSUME NEW rs \in Seq(Row), Intact(rs)
  PROVE  /\ \A i \in 1 .. Len(rs) : Len(rs[i].entryHash) = i
         /\ Len(HeadOf(rs)) = Len(rs)
<1> DEFINE Off == {i \in 1 .. Len(rs) : Len(rs[i].entryHash) # i}
<1>1. ASSUME Off # {} PROVE FALSE
  <2>1. PICK m \in Off : \A i \in Off : m <= i
    <3>1. Off \in SUBSET Nat
      OBVIOUS
    <3> HIDE DEF Off
    <3> QED BY <1>1, <3>1, LeastElement
  <2>2. /\ m \in 1 .. Len(rs) /\ m \in Nat /\ rs[m] \in Row
        /\ rs[m].prevHash = PrevOf(rs, m) /\ EntryHashValid(rs[m])
    BY DEF Intact
  <2>3. /\ rs[m].prevHash \in Seq(Stamp)
        /\ Len(rs[m].entryHash) = Len(rs[m].prevHash) + 1
    BY <2>2 DEF EntryHashValid, HashEntry, Row, Hash, Stamp
  <2>4. Len(rs[m].prevHash) = m - 1
    <3>1. CASE m = 1
      BY <2>2, <3>1 DEF PrevOf, Null
    <3>2. CASE m # 1
      <4>1. m - 1 \in 1 .. Len(rs) /\ ~ (m <= m - 1)
        BY <2>2, <3>2
      <4>2. Len(rs[m - 1].entryHash) = m - 1
        BY <2>1, <4>1
      <4> QED BY <2>2, <3>2, <4>2 DEF PrevOf
    <3> QED BY <3>1, <3>2
  <2>5. Len(rs[m].entryHash) # m
    BY <2>1
  <2> QED BY <2>2, <2>3, <2>4, <2>5
<1>2. \A i \in 1 .. Len(rs) : Len(rs[i].entryHash) = i
  BY <1>1
<1>3. Len(HeadOf(rs)) = Len(rs)
  <2>1. CASE rs = << >>
    BY <2>1 DEF HeadOf, Null
  <2>2. CASE rs # << >>
    <3>1. Len(rs) \in 1 .. Len(rs)
      BY <2>2
    <3> QED BY <1>2, <2>2, <3>1 DEF HeadOf
  <2> QED BY <2>1, <2>2
<1> QED BY <1>2, <1>3

\* One hash pins down every field of every row of a table that verifies: two
\* such tables with the same head are the same table (db.ts:256-284).
THEOREM HeadPinsTable ==
  ASSUME NEW rs \in Seq(Row), NEW ts \in Seq(Row), Intact(rs), Intact(ts),
         HeadOf(rs) = HeadOf(ts)
  PROVE  rs = ts
<1> DEFINE n == Len(rs)
           Differ == {k \in 0 .. n - 1 : rs[n - k].entryHash # ts[n - k].entryHash}
<1>1. n \in Nat /\ Len(ts) = n
  BY IntactLength
<1> HIDE DEF n
<1>2. \A i \in 1 .. n : /\ rs[i] \in Row /\ rs[i].prevHash = PrevOf(rs, i)
                        /\ ContentValid(rs[i]) /\ EntryHashValid(rs[i])
                        /\ ts[i] \in Row /\ ts[i].prevHash = PrevOf(ts, i)
                        /\ ContentValid(ts[i]) /\ EntryHashValid(ts[i])
  BY <1>1 DEF Intact, n
<1>3. ASSUME Differ # {} PROVE FALSE
  <2>1. PICK m \in Differ : \A k \in Differ : m <= k
    <3>1. Differ \in SUBSET Nat
      BY <1>1
    <3> HIDE DEF Differ
    <3> QED BY <1>3, <3>1, LeastElement
  <2>2. m \in 0 .. n - 1 /\ rs[n - m].entryHash # ts[n - m].entryHash
    BY <2>1
  <2>3. CASE m = 0
    <3>1. n # 0 /\ n - m = n
      BY <1>1, <2>2, <2>3
    <3>2. rs # << >> /\ ts # << >>
      BY <1>1, <3>1 DEF n
    <3>3. HeadOf(rs) = rs[n].entryHash /\ HeadOf(ts) = ts[n].entryHash
      BY <1>1, <3>2 DEF HeadOf, n
    <3> QED BY <2>2, <3>1, <3>3
  <2>4. CASE m # 0
    <3> DEFINE i == n - (m - 1)
    <3>1. /\ m - 1 \in 0 .. n - 1 /\ ~ (m <= m - 1)
          /\ i \in 1 .. n /\ i # 1 /\ i - 1 = n - m
      BY <1>1, <2>2, <2>4
    <3>2. rs[i].entryHash = ts[i].entryHash
      BY <2>1, <3>1
    <3> HIDE DEF i
    <3>3. rs[i] = ts[i]
      BY <1>2, <3>1, <3>2, HashPinsRow
    <3>4. PrevOf(rs, i) = rs[n - m].entryHash /\ PrevOf(ts, i) = ts[n - m].entryHash
      BY <3>1 DEF PrevOf
    <3>5. rs[i].prevHash = PrevOf(rs, i) /\ ts[i].prevHash = PrevOf(ts, i)
      BY <1>2, <3>1
    <3> QED BY <2>2, <3>3, <3>4, <3>5
  <2> QED BY <2>3, <2>4
<1>4. \A i \in 1 .. n : rs[i] = ts[i]
  <2> SUFFICES ASSUME NEW i \in 1 .. n PROVE rs[i] = ts[i]
    OBVIOUS
  <2>1. n - i \in 0 .. n - 1 /\ n - (n - i) = i
    BY <1>1
  <2>2. rs[i].entryHash = ts[i].entryHash
    BY <1>3, <2>1
  <2> QED BY <1>2, <2>2, HashPinsRow
<1> QED BY <1>1, <1>4 DEF n

-----------------------------------------------------------------------------
(* Edits keep the table a sequence of rows, whatever they put in it *)

LEMMA EditedRowsTyped ==
  ASSUME rows \in Seq(Row)
  PROVE  ChangedInPlace \cup Shortened \cup Exchanged \cup Rewritten \subseteq Seq(Row)
<1> DEFINE n == Len(rows)
<1>1. n \in Nat /\ \A i \in 1 .. n : rows[i] \in Row
  OBVIOUS
<1>2. ChangedInPlace \subseteq Seq(Row)
  <2> SUFFICES ASSUME NEW i \in 1 .. n, NEW c \in Content
               PROVE  [rows EXCEPT ![i].content = c] \in Seq(Row)
    BY DEF ChangedInPlace
  <2>1. [rows[i] EXCEPT !.content = c] \in Row
    BY <1>1 DEF Row
  <2> QED BY <2>1
<1>3. Shortened \subseteq Seq(Row)
  <2> SUFFICES ASSUME NEW i \in 1 .. n
               PROVE  RemoveAt(rows, i) \in Seq(Row)
    BY DEF Shortened
  <2>1. SubSeq(rows, 1, i - 1) \in Seq(Row)
    BY <1>1
  <2>2. SubSeq(rows, i + 1, n) \in Seq(Row)
    BY <1>1
  <2> QED BY <2>1, <2>2 DEF RemoveAt
<1>4. Exchanged \subseteq Seq(Row)
  <2> SUFFICES ASSUME NEW i \in 1 .. n - 1
               PROVE  [rows EXCEPT ![i] = rows[i + 1], ![i + 1] = rows[i]] \in Seq(Row)
    BY DEF Exchanged
  <2>1. i \in 1 .. n /\ i + 1 \in 1 .. n
    BY <1>1
  <2>2. rows[i] \in Row /\ rows[i + 1] \in Row
    BY <1>1, <2>1
  <2> QED BY <2>1, <2>2
<1>5. Rewritten \subseteq Seq(Row)
  <2> DEFINE With(i, c) ==
               [k \in 1 .. Len(rows) |-> IF k = i THEN c ELSE rows[k].content]
             Stamps(cs, m) == [k \in 1 .. m |-> [contentHash |-> HashContent(cs[k]),
                                                 createdAt   |-> rows[k].createdAt]]
             New(i, c) == [k \in 1 .. Len(rows) |->
                             BuildEntry(With(i, c)[k], Stamps(With(i, c), k - 1),
                                        rows[k].createdAt)]
  <2>1. Rewritten = {New(i, c) : i \in 1 .. Len(rows), c \in Content}
    BY DEF Rewritten
  <2> SUFFICES ASSUME NEW i \in 1 .. Len(rows), NEW c \in Content
               PROVE  New(i, c) \in Seq(Row)
    <3> HIDE DEF New
    <3> QED BY <2>1
  <2> DEFINE cs == With(i, c)
             Built(k) == BuildEntry(cs[k], Stamps(cs, k - 1), rows[k].createdAt)
  <2>2. SUFFICES [k \in 1 .. n |-> Built(k)] \in Seq(Row)
    OBVIOUS
  <2>3. cs \in [1 .. n -> Content]
    BY <1>1 DEF Row
  <2> HIDE DEF cs
  <2>4. ASSUME NEW k \in 1 .. n
        PROVE  Built(k) \in Row
    <3>1. k - 1 \in Nat /\ 1 .. k - 1 \subseteq 1 .. n
      BY <1>1
    <3>2. \A j \in 1 .. n : [contentHash |-> HashContent(cs[j]),
                             createdAt   |-> rows[j].createdAt] \in Stamp
      BY <1>1, <2>3 DEF HashContent, ContentHash, Stamp, Row
    <3>3. Stamps(cs, k - 1) \in Seq(Stamp)
      BY <3>1, <3>2
    <3>4. cs[k] \in Content /\ rows[k].createdAt \in Time
      BY <1>1, <2>3 DEF Row
    <3> QED BY <3>3, <3>4, BuildEntryFacts DEF Hash
  <2> HIDE DEF Built
  <2> QED BY <1>1, <2>4
<1> QED BY <1>2, <1>3, <1>4, <1>5

LEMMA EditTyped ==
  ASSUME Typed, Edit
  PROVE  Typed'
<1>1. rows' \in Seq(Row)
  BY EditedRowsTyped DEF Edit, Typed, TypeOK
<1> QED BY <1>1 DEF Edit, Typed, TypeOK, CallOK

LEMMA EditedTypedStep == Typed /\ [EditedNext]_editedVars => Typed'
<1> SUFFICES ASSUME Typed, [EditedNext]_editedVars PROVE Typed'
  OBVIOUS
<1>1. CASE ServerNext
  BY <1>1, TypedStep DEF ServerNext, Next
<1>2. CASE Edit
  BY <1>2, EditTyped
<1>3. CASE UNCHANGED editedVars
  <2>1. UNCHANGED vars
    BY <1>3 DEF editedVars
  <2> QED BY <2>1, TypedStep
<1> QED BY <1>1, <1>2, <1>3 DEF EditedNext

LEMMA EditedTyped == EditedSpec => []Typed
<1>1. EditedInit => Typed
  BY InitTyped DEF EditedInit
<1> QED BY <1>1, EditedTypedStep, PTL DEF EditedSpec

-----------------------------------------------------------------------------
(* The verifications agree on any table *)

\* The first rows of a table, up to a limit within it.
LEMMA FirstRows ==
  ASSUME NEW rs \in Seq(Row), NEW limit \in 0 .. Len(rs)
  PROVE  /\ Len(GetChain(rs, limit)) = limit
         /\ \A i \in 1 .. limit : GetChain(rs, limit)[i] = rs[i]
<1>1. GetChain(rs, limit) = SubSeq(rs, 1, limit)
  BY DEF GetChain
<1>2. limit \in Nat /\ limit <= Len(rs) /\ Len(rs) \in Nat
  OBVIOUS
<1> QED BY <1>1, <1>2

\* verifyChainStructurally accepts what `chain` accepts and starts at a genesis
\* entry, `recall` flags no entry of such a table, and `chain` accepts all its
\* prefixes: whatever was done to the file.
THEOREM VerificationsAgree == EditedSpec => []VerifiersAgree
<1>1. ASSUME rows \in Seq(Row)
      PROVE  VerifiersAgree
  <2> DEFINE n == Len(rows)
             genesis == rows # << >> => rows[1].prevHash = Null
  <2>1. n \in Nat /\ (rows # << >> => 1 \in 1 .. n)
    BY <1>1
  <2>2. ASSUME NEW limit \in 0 .. n
        PROVE  ValidateChain(GetChain(rows, limit)) <=>
                 \A i \in 1 .. limit :
                   /\ ContentValid(rows[i])
                   /\ EntryHashValid(rows[i])
                   /\ i > 1 => rows[i].prevHash = rows[i - 1].entryHash
    <3> DEFINE first == GetChain(rows, limit)
    <3>1. Len(first) = limit /\ \A i \in 1 .. limit : first[i] = rows[i]
      BY <1>1, FirstRows
    <3>2. \A i \in 1 .. limit : i > 1 => first[i - 1] = rows[i - 1]
      BY <3>1
    <3> HIDE DEF first
    <3>3. ValidateChain(first) <=>
            \A i \in 1 .. limit :
              /\ ContentValid(rows[i])
              /\ EntryHashValid(rows[i])
              /\ i > 1 => rows[i].prevHash = rows[i - 1].entryHash
      BY <3>1, <3>2 DEF ValidateChain
    <3> QED BY <3>3 DEF first
  <2>3. Intact(rows) <=> ValidateChain(GetChain(rows, n)) /\ genesis
    <3>1. CASE rows = << >>
      BY <2>2, <3>1 DEF Intact
    <3>2. CASE rows # << >>
      BY <2>1, <2>2, <3>2 DEF Intact, PrevOf
    <3> QED BY <3>1, <3>2
  <2>4. ValidateChain(rows) =>
          \A i \in 1 .. n : EntryIntegrity(rows[i]) = "valid"
    BY DEF ValidateChain, EntryIntegrity
  <2>5. ASSUME Intact(rows), NEW limit \in 1 .. n
        PROVE  ValidateChain(GetChain(rows, limit))
    BY <2>1, <2>2, <2>5 DEF Intact, PrevOf
  <2> QED BY <2>3, <2>4, <2>5 DEF VerifiersAgree
<1>2. Typed => rows \in Seq(Row)
  BY DEF Typed, TypeOK
<1> QED BY <1>1, <1>2, EditedTyped, PTL

-----------------------------------------------------------------------------
(* The inductive invariant, with conditional appends alone *)

\* Under the write lock a transaction has read the current table: an edit needs
\* the lock too.
LockView == \A p \in Proc : pc[p] \in LockPcs => view[p] = rows

\* The row staged by p is valid and built on a table that verifies, the one
\* that p read: what the file has become since is no matter.
Pending(p) ==
  /\ Intact(view[p])
  /\ Len(staged[p]) = 1
  /\ staged[p][1].prevHash = HeadOf(view[p])
  /\ ContentValid(staged[p][1])
  /\ EntryHashValid(staged[p][1])

\* The keychain holds the head of the rows last confirmed, and those verify.
ConfirmedOK ==
  /\ confirmed \in Seq(Row)
  /\ Intact(confirmed)
  /\ keychain = HeadOf(confirmed)
  /\ \A p \in Proc : /\ pc[p] \notin RememberPcs
                     /\ pc[p] \in {"casCommit", "casConfirm"} => Pending(p)

\* Until an edit meets an append that awaits its confirmation, such an append
\* is alone, has put its row at the end of the table it read, and the keychain
\* still holds the head of that table.
AttestedOK ==
  ~ inWindow =>
    \A p \in Proc :
      /\ pc[p] = "casCommit" => keychain = HeadOf(view[p])
      /\ pc[p] = "casConfirm" =>
           /\ rows = view[p] \o staged[p]
           /\ keychain = HeadOf(view[p])
           /\ \A q \in Proc : pc[q] = "casConfirm" => q = p

EInv == Typed /\ LockOK /\ LockView /\ ConfirmedOK /\ AttestedOK

LEMMA InitEInv == EditedInit => EInv
<1> SUFFICES ASSUME EditedInit PROVE EInv
  OBVIOUS
<1>1. Typed
  BY InitTyped DEF EditedInit
<1>2. /\ lock = None /\ keychain = Null /\ confirmed = << >>
      /\ \A p \in Proc : pc[p] = "idle"
  BY DEF EditedInit, Init
<1>3. LockOK /\ LockView
  BY <1>2, LedgerAssumption DEF LockOK, LockView, LockPcs
<1>4. Intact(confirmed) /\ keychain = HeadOf(confirmed) /\ confirmed \in Seq(Row)
  BY <1>2 DEF Intact, HeadOf
<1>5. ConfirmedOK
  BY <1>2, <1>4 DEF ConfirmedOK, RememberPcs
<1>6. AttestedOK
  BY <1>2 DEF AttestedOK
<1> QED BY <1>1, <1>3, <1>5, <1>6 DEF EInv

\* What a server step of p is, from where it leads.
LEMMA StepKind ==
  ASSUME StrictOnly, EInv, NEW p \in Proc,
         Arrival(p) \/ Step(p) \/ Return(p) \/ Crash(p)
  PROVE  /\ Alone(p)
         /\ pc'[p] \notin RememberPcs
         /\ pc'[p] = "casCommit" => /\ Stages(p) /\ pc[p] = "casCheck"
                                    /\ Verdict(view[p]) = "confirmed"
         /\ pc'[p] \in CommittedPcs => Commits(p)
         /\ keychain' # keychain => Acknowledges(p)
         /\ rows' # rows => Commits(p)
         /\ Quiet(p) \/ Stages(p) \/ Acquires(p) \/ Commits(p) \/ Acknowledges(p)
<1>1. Alone(p) /\ (Quiet(p) \/ Stages(p) \/ Acquires(p) \/ Commits(p)
                     \/ Acknowledges(p))
  BY Footprint DEF EInv
<1>2. /\ pc'[p] \notin RememberPcs
      /\ pc'[p] = "casCommit" => /\ pc[p] = "casCheck"
                                 /\ Verdict(view[p]) = "confirmed"
      /\ pc'[p] \in CommittedPcs => Commits(p)
  BY StrictMove DEF EInv, ConfirmedOK
<1>3. pc'[p] = "casCommit" => Stages(p)
  BY <1>1 DEF Quiet, Acquires, Commits, Acknowledges, LockPcs, CommittedPcs
<1>4. /\ keychain' # keychain => Acknowledges(p)
      /\ rows' # rows => Commits(p)
  BY <1>1 DEF Quiet, Stages, Acquires, Commits, Acknowledges
<1> QED BY <1>1, <1>2, <1>3, <1>4

\* A commit, without `remember`, is that of a conditional append.
LEMMA CommitIsCas ==
  ASSUME EInv, NEW p \in Proc, Commits(p)
  PROVE  pc[p] = "casCommit" /\ view[p] = rows /\ rows' = view'[p] \o staged'[p]
BY DEF EInv, ConfirmedOK, LockView, Commits, LockPcs, StagedPcs, CommittedPcs,
       RememberPcs

\* A table extended by a row has that row's hash as its head, which differs from
\* the head it had.
LEMMA ExtendedHead ==
  ASSUME NEW rs \in Seq(Row), NEW more \in Seq(Row), Len(more) = 1, Intact(rs),
         more[1].prevHash = HeadOf(rs), ContentValid(more[1]),
         EntryHashValid(more[1])
  PROVE  /\ rs \o more \in Seq(Row)
         /\ Intact(rs \o more)
         /\ HeadOf(rs \o more) = HeadOf(more)
         /\ HeadOf(more) # HeadOf(rs)
<1> DEFINE both == rs \o more
<1>1. /\ both \in Seq(Row) /\ Len(both) = Len(rs) + 1
      /\ both[Len(rs) + 1] = more[1]
  <2>1. /\ both \in Seq(Row) /\ Len(both) = Len(rs) + Len(more)
        /\ \A i \in 1 .. Len(rs) + Len(more) :
             both[i] = IF i <= Len(rs) THEN rs[i] ELSE more[i - Len(rs)]
    BY ConcatProperties, Zenon
  <2> HIDE DEF both
  <2>2. Len(rs) \in Nat
    OBVIOUS
  <2>3. Len(rs) + 1 \in 1 .. Len(rs) + Len(more) /\ Len(rs) + 1 - Len(rs) = 1
        /\ ~ (Len(rs) + 1 <= Len(rs))
    BY <2>2
  <2>4. both[Len(rs) + 1] = more[Len(rs) + 1 - Len(rs)]
    BY <2>1, <2>3
  <2> QED BY <2>1, <2>3, <2>4
<1>2. Intact(both)
  BY IntactExtends
<1> HIDE DEF both
<1>3. Len(rs) \in Nat /\ both # << >> /\ more # << >>
  <2>1. Len(rs) \in Nat
    OBVIOUS
  <2>2. Len(both) # 0
    BY <1>1, <2>1
  <2>3. both # << >>
    BY <2>2
  <2>4. more # << >>
    OBVIOUS
  <2> QED BY <2>1, <2>3, <2>4
<1>4. HeadOf(both) = more[1].entryHash /\ HeadOf(more) = more[1].entryHash
  BY <1>1, <1>3 DEF HeadOf
<1>5. Len(HeadOf(both)) = Len(rs) + 1 /\ Len(HeadOf(rs)) = Len(rs)
  BY <1>1, <1>2, IntactLength
<1> QED BY <1>1, <1>2, <1>3, <1>4, <1>5 DEF both

LEMMA PendingExtends ==
  ASSUME Typed, NEW p \in Proc, Pending(p)
  PROVE  /\ view[p] \o staged[p] \in Seq(Row)
         /\ Intact(view[p] \o staged[p])
         /\ HeadOf(view[p] \o staged[p]) = HeadOf(staged[p])
         /\ HeadOf(staged[p]) # HeadOf(view[p])
<1>1. view[p] \in Seq(Row) /\ staged[p] \in Seq(Row)
  BY DEF Typed, TypeOK
<1> QED BY <1>1, ExtendedHead DEF Pending

\* An append awaiting its confirmation keeps every other one from its commit.
LEMMA PendingExcludes ==
  ASSUME Typed, LockView, ConfirmedOK, AttestedOK, ~ inWindow,
         NEW p \in Proc, NEW q \in Proc, pc[p] = "casConfirm"
  PROVE  pc[q] # "casCommit" /\ (pc[q] = "casCheck" => Verdict(view[q]) # "confirmed")
<1>1. rows = view[p] \o staged[p] /\ keychain = HeadOf(view[p])
  BY DEF AttestedOK
<1>2. Pending(p)
  BY DEF ConfirmedOK
<1>3. keychain # HeadOf(rows)
  BY <1>1, <1>2, PendingExtends
<1>4. pc[q] \in {"casCommit", "casCheck"} => view[q] = rows
  BY DEF LockView, LockPcs
<1>5. Verdict(view[q]) = "confirmed" => keychain = HeadOf(view[q])
  BY DEF Verdict, WitnessStatus
<1> QED BY <1>3, <1>4, <1>5 DEF AttestedOK

-----------------------------------------------------------------------------
(* A step of the server *)

LEMMA LockViewStep ==
  ASSUME StrictOnly, EInv, NEW p \in Proc,
         Arrival(p) \/ Step(p) \/ Return(p) \/ Crash(p)
  PROVE  LockView'
<1>1. Alone(p) /\ (Quiet(p) \/ Stages(p) \/ Acquires(p) \/ Commits(p)
                     \/ Acknowledges(p)) /\ pc'[p] \notin RememberPcs
  BY StepKind
<1> USE DEF EInv, LockOK, LockView, Alone, LockPcs
<1>2. CASE Quiet(p)
  BY <1>1, <1>2 DEF Quiet
<1>3. CASE Stages(p)
  BY <1>1, <1>3 DEF Stages, RememberPcs
<1>4. CASE Acquires(p)
  BY <1>1, <1>4 DEF Acquires
<1>5. CASE Commits(p)
  BY <1>1, <1>5 DEF Commits, CommittedPcs
<1>6. CASE Acknowledges(p)
  BY <1>1, <1>6 DEF Acknowledges
<1> QED BY <1>1, <1>2, <1>3, <1>4, <1>5, <1>6

LEMMA PendingStep ==
  ASSUME StrictOnly, EInv, NEW p \in Proc,
         Arrival(p) \/ Step(p) \/ Return(p) \/ Crash(p)
  PROVE  \A q \in Proc : /\ pc'[q] \notin RememberPcs
                         /\ pc'[q] \in {"casCommit", "casConfirm"} => Pending(q)'
<1>1. Alone(p) /\ pc'[p] \notin RememberPcs
  BY StepKind
<1>2. ASSUME NEW q \in Proc, q # p
      PROVE  /\ pc'[q] \notin RememberPcs
             /\ pc'[q] \in {"casCommit", "casConfirm"} => Pending(q)'
  BY <1>1, <1>2 DEF EInv, ConfirmedOK, Alone, Pending, HeadOf
<1>3. CASE pc'[p] = "casCommit"
  <2>1. Stages(p) /\ pc[p] = "casCheck" /\ Verdict(view[p]) = "confirmed"
    BY <1>3, StepKind
  <2>2. view'[p] = view[p] /\ Intact(view[p]) /\ HeadOf(view[p]) \in Hash
    BY <2>1, HeadOfType DEF Stages, LockPcs, Verdict, EInv, Typed, TypeOK
  <2>3. PICK content \in Content, at \in Time :
          staged'[p] = <<BuildEntry(content, HeadOf(view[p]), at)>>
    BY <2>1, <2>2 DEF Stages
  <2> DEFINE row == BuildEntry(content, HeadOf(view[p]), at)
  <2>4. row.prevHash = HeadOf(view[p]) /\ ContentValid(row) /\ EntryHashValid(row)
    BY <2>2, BuildEntryFacts
  <2> HIDE DEF row
  <2>5. Len(staged'[p]) = 1 /\ staged'[p][1] = row
    BY <2>3 DEF row
  <2>6. Pending(p)'
    BY <2>2, <2>4, <2>5 DEF Pending, Intact, HeadOf, PrevOf
  <2> QED BY <1>1, <1>2, <2>6
<1>4. CASE pc'[p] = "casConfirm"
  <2>1. Commits(p)
    BY <1>4, StepKind DEF CommittedPcs
  <2>2. pc[p] = "casCommit" /\ view'[p] = view[p] /\ staged'[p] = staged[p]
    BY <2>1, CommitIsCas DEF Commits
  <2>3. Pending(p)'
    BY <2>2 DEF EInv, ConfirmedOK, Pending, Intact, HeadOf, PrevOf
  <2> QED BY <1>1, <1>2, <2>3
<1> QED BY <1>1, <1>2, <1>3, <1>4

LEMMA ConfirmedStep ==
  ASSUME StrictOnly, EInv, NEW p \in Proc,
         Arrival(p) \/ Step(p) \/ Return(p) \/ Crash(p),
         confirmed' = IF keychain' = keychain THEN confirmed ELSE view[p] \o staged[p]
  PROVE  ConfirmedOK'
<1>1. \A q \in Proc : /\ pc'[q] \notin RememberPcs
                      /\ pc'[q] \in {"casCommit", "casConfirm"} => Pending(q)'
  BY PendingStep
<1>2. confirmed' \in Seq(Row) /\ Intact(confirmed') /\ keychain' = HeadOf(confirmed')
  <2>1. CASE keychain' = keychain
    BY <2>1 DEF EInv, ConfirmedOK
  <2>2. CASE keychain' # keychain
    <3>1. Acknowledges(p)
      BY <2>2, StepKind
    <3>2. pc[p] = "casConfirm" /\ keychain' = HeadOf(staged[p])
      BY <2>2, <3>1 DEF Acknowledges, EInv, ConfirmedOK, CommittedPcs, RememberPcs
    <3>3. Pending(p)
      BY <3>2 DEF EInv, ConfirmedOK
    <3> QED BY <2>2, <3>2, <3>3, PendingExtends DEF EInv
  <2> QED BY <2>1, <2>2
<1>3. Intact(confirmed)' /\ HeadOf(confirmed)' = HeadOf(confirmed')
  BY <1>2 DEF Intact, HeadOf, PrevOf
<1> QED BY <1>1, <1>2, <1>3 DEF ConfirmedOK

LEMMA AttestedStep ==
  ASSUME StrictOnly, EInv, NEW p \in Proc,
         Arrival(p) \/ Step(p) \/ Return(p) \/ Crash(p), inWindow' = inWindow
  PROVE  AttestedOK'
<1> DEFINE Held(q) ==
             /\ pc[q] = "casCommit" => keychain = HeadOf(view[q])
             /\ pc[q] = "casConfirm" =>
                  /\ rows = view[q] \o staged[q]
                  /\ keychain = HeadOf(view[q])
                  /\ \A r \in Proc : pc[r] = "casConfirm" => r = q
<1>1. SUFFICES ASSUME ~ inWindow, NEW q \in Proc
               PROVE  Held(q)'
  BY DEF AttestedOK, HeadOf
<1>2. \A r \in Proc : Held(r)
  BY <1>1 DEF EInv, AttestedOK
<1>3. Alone(p) /\ Typed /\ LockView /\ ConfirmedOK /\ AttestedOK
  BY StepKind DEF EInv
<1>4. CASE pc'[p] = "casConfirm"
  <2>1. Commits(p)
    BY <1>4, StepKind DEF CommittedPcs
  <2>2. /\ pc[p] = "casCommit" /\ view[p] = rows /\ rows' = view'[p] \o staged'[p]
        /\ view'[p] = view[p] /\ keychain' = keychain
    BY <2>1, CommitIsCas DEF Commits
  <2>3. keychain = HeadOf(view[p])
    BY <1>2, <2>2
  <2>4. \A r \in Proc : pc[r] # "casConfirm"
    BY <1>1, <1>3, <2>2, PendingExcludes
  <2>5. \A r \in Proc : pc[r] = "casCommit" => r = p
    BY <2>2 DEF EInv, LockOK, LockPcs
  <2> QED BY <1>3, <1>4, <2>2, <2>3, <2>4, <2>5 DEF Alone, HeadOf
<1>5. CASE pc'[p] # "casConfirm" /\ keychain' # keychain
  <2>1. Acknowledges(p)
    BY <1>5, StepKind
  <2>2. pc[p] = "casConfirm" /\ pc'[p] = "replied"
    BY <2>1 DEF Acknowledges, EInv, ConfirmedOK, CommittedPcs, RememberPcs
  <2>3. \A r \in Proc : pc[r] # "casCommit"
    BY <1>1, <1>3, <2>2, PendingExcludes
  <2>4. \A r \in Proc : pc[r] = "casConfirm" => r = p
    BY <1>2, <2>2
  <2> QED BY <1>3, <2>2, <2>3, <2>4 DEF Alone
<1>6. CASE pc'[p] # "casConfirm" /\ keychain' = keychain
  <2>1. ~ Commits(p)
    BY <1>6, StepKind DEF Commits, CommittedPcs, RememberPcs
  <2>2. rows' = rows
    BY <2>1, StepKind
  <2>3. CASE q = p
    <3>1. CASE pc'[p] = "casCommit"
      <4>1. Stages(p) /\ pc[p] = "casCheck" /\ Verdict(view[p]) = "confirmed"
        BY <3>1, StepKind
      <4>2. view'[p] = view[p] /\ keychain = HeadOf(view[p])
        BY <4>1 DEF Stages, LockPcs, Verdict, WitnessStatus
      <4> QED BY <1>6, <2>3, <3>1, <4>2 DEF HeadOf
    <3> QED BY <1>6, <2>3, <3>1
  <2>4. CASE q # p
    BY <1>2, <1>3, <1>6, <2>2, <2>4 DEF Alone, HeadOf
  <2> QED BY <2>3, <2>4
<1> QED BY <1>4, <1>5, <1>6

LEMMA ServerStep ==
  ASSUME StrictOnly, EInv, ServerNext
  PROVE  EInv'
<1>1. PICK p \in Proc :
        /\ Arrival(p) \/ Step(p) \/ Return(p) \/ Crash(p)
        /\ confirmed' = IF keychain' = keychain THEN confirmed ELSE view[p] \o staged[p]
  BY DEF ServerNext
<1>2. inWindow' = inWindow
  BY DEF ServerNext
<1>3. Typed'
  BY <1>1, TypedStep DEF Next, EInv
<1>4. LockOK'
  BY <1>1, <1>3, Footprint, LockStep DEF EInv, Typed, TypeOK
<1>5. LockView'
  BY <1>1, LockViewStep
<1>6. ConfirmedOK'
  BY <1>1, ConfirmedStep
<1>7. AttestedOK'
  BY <1>1, <1>2, AttestedStep
<1> QED BY <1>3, <1>4, <1>5, <1>6, <1>7 DEF EInv

-----------------------------------------------------------------------------
(* An edit, and the invariant *)

\* An edit finds nobody under the lock; where it finds an append waiting for
\* its confirmation, AttestedOK promises nothing any more.
LEMMA EditStep ==
  ASSUME EInv, Edit
  PROVE  EInv'
<1>1. /\ lock = None /\ inWindow' = (inWindow \/ \E p \in Proc : pc[p] \in CommittedPcs)
      /\ UNCHANGED <<lock, keychain, pc, view, staged, confirmed>>
  BY DEF Edit
<1>2. Typed'
  BY EditTyped DEF EInv
<1>3. \A p \in Proc : pc[p] \notin LockPcs
  BY <1>1, LedgerAssumption DEF EInv, LockOK
<1>4. LockOK' /\ LockView'
  BY <1>1, <1>3 DEF EInv, LockOK, LockView
<1>5. ConfirmedOK'
  <2>1. \A p \in Proc : Pending(p) => Pending(p)'
    BY <1>1 DEF Pending, HeadOf, Intact, PrevOf
  <2>2. Intact(confirmed)' /\ HeadOf(confirmed)' = HeadOf(confirmed)
    BY <1>1 DEF EInv, ConfirmedOK, HeadOf, Intact, PrevOf
  <2> QED BY <1>1, <2>1, <2>2 DEF EInv, ConfirmedOK
<1>6. AttestedOK'
  BY <1>1, <1>3 DEF AttestedOK, LockPcs, CommittedPcs
<1> QED BY <1>2, <1>4, <1>5, <1>6 DEF EInv

LEMMA EInvStep ==
  ASSUME StrictOnly
  PROVE  EInv /\ [EditedNext]_editedVars => EInv'
<1> SUFFICES ASSUME EInv, [EditedNext]_editedVars PROVE EInv'
  OBVIOUS
<1>1. CASE UNCHANGED editedVars
  <2>1. Typed'
    BY <1>1, EditedTypedStep DEF EInv
  <2>2. /\ UNCHANGED <<rows, lock, keychain, pc, view, staged, confirmed, inWindow>>
    BY <1>1 DEF editedVars, vars
  <2>3. \A p \in Proc : Pending(p) => Pending(p)'
    BY <2>2 DEF Pending, HeadOf, Intact, PrevOf
  <2>4. ConfirmedOK'
    BY <2>2, <2>3 DEF EInv, ConfirmedOK, HeadOf, Intact, PrevOf
  <2>5. LockOK' /\ LockView' /\ AttestedOK'
    BY <2>2 DEF EInv, LockOK, LockView, AttestedOK, HeadOf
  <2> QED BY <2>1, <2>4, <2>5 DEF EInv
<1> QED BY <1>1, ServerStep, EditStep DEF EditedNext

LEMMA EditedInvariance ==
  ASSUME StrictOnly
  PROVE  EditedSpec => []EInv
BY InitEInv, EInvStep, PTL DEF EditedSpec

-----------------------------------------------------------------------------
(* What follows *)

\* Whatever is done to the file, the conditional append and the verified
\* snapshot accept exactly the rows whose head was last written to the
\* keychain: the table they read verifies and has the keychain's hash as its
\* head, which only one table does.
THEOREM AcceptedOnlyConfirmed ==
  ASSUME StrictOnly
  PROVE  EditedSpec => []AcceptedIsConfirmed
<1>1. EInv => AcceptedIsConfirmed
  <2> SUFFICES ASSUME EInv, NEW p \in Proc, Verdict(view[p]) = "confirmed"
               PROVE  view[p] = confirmed
    BY DEF AcceptedIsConfirmed
  <2>1. Intact(view[p]) /\ HeadOf(view[p]) = keychain
    BY DEF Verdict, WitnessStatus
  <2>2. /\ view[p] \in Seq(Row) /\ confirmed \in Seq(Row)
        /\ Intact(confirmed) /\ keychain = HeadOf(confirmed)
    BY DEF EInv, ConfirmedOK, Typed, TypeOK
  <2> QED BY <2>1, <2>2, HeadPinsTable
<1> QED BY <1>1, EditedInvariance, PTL

\* No edit enters the attested history: what is confirmed extends what was
\* confirmed before, unless an edit met an append awaiting its confirmation.
THEOREM EditsStayUnattested ==
  ASSUME StrictOnly
  PROVE  EditedSpec => EditsNeverAttested
<1>1. ASSUME EInv, [EditedNext]_editedVars
      PROVE  [inWindow \/ IsPrefix(confirmed, confirmed')]_editedVars
  <2> SUFFICES ASSUME ~ inWindow
               PROVE  IsPrefix(confirmed, confirmed')
    OBVIOUS
  <2>1. confirmed \in Seq(Row)
    BY <1>1 DEF EInv, ConfirmedOK
  <2>2. CASE confirmed' = confirmed
    BY <2>1, <2>2 DEF IsPrefix
  <2>3. CASE confirmed' # confirmed
    <3>1. ServerNext
      BY <1>1, <2>3 DEF EditedNext, Edit, editedVars
    <3>2. PICK p \in Proc :
            /\ Arrival(p) \/ Step(p) \/ Return(p) \/ Crash(p)
            /\ keychain' # keychain
            /\ confirmed' = view[p] \o staged[p]
      BY <2>3, <3>1 DEF ServerNext
    <3>3. Acknowledges(p)
      BY <1>1, <3>2, Footprint DEF EInv, Quiet, Stages, Acquires, Commits
    <3>4. pc[p] = "casConfirm"
      BY <1>1, <3>3 DEF Acknowledges, EInv, ConfirmedOK, CommittedPcs, RememberPcs
    <3>5. keychain = HeadOf(view[p]) /\ Intact(view[p])
      BY <1>1, <3>4 DEF EInv, AttestedOK, ConfirmedOK, Pending
    <3>6. view[p] \in Seq(Row) /\ staged[p] \in Seq(Row)
      BY <1>1 DEF EInv, Typed, TypeOK
    <3>7. view[p] = confirmed
      BY <1>1, <2>1, <3>5, <3>6, HeadPinsTable DEF EInv, ConfirmedOK
    <3> DEFINE more == staged[p]
    <3>8. confirmed' = confirmed \o more /\ more \in Seq(Row)
      BY <3>2, <3>6, <3>7
    <3> HIDE DEF more
    <3>9. /\ Len(confirmed) <= Len(confirmed')
          /\ SubSeq(confirmed, 1, Len(confirmed)) = SubSeq(confirmed', 1, Len(confirmed))
      BY <2>1, <3>8
    <3> QED BY <3>9 DEF IsPrefix
  <2> QED BY <2>2, <2>3
<1>2. EInv /\ [EditedNext]_editedVars
        => [inWindow \/ IsPrefix(confirmed, confirmed')]_editedVars
  BY <1>1
<1> QED BY <1>2, EditedInvariance, PTL DEF EditedSpec, EditsNeverAttested

=============================================================================
