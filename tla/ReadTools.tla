----------------------------- MODULE ReadTools -----------------------------
(***************************************************************************)
(* The reading tools (chain, recall, timeline, export) against appends.    *)
(* They open no transaction: each of their statements sees the table of    *)
(* its own moment, and a row may be committed between two of them.         *)
(*                                                                         *)
(* A row is what the statements tell apart: how it matches the query       *)
(* asked, and its created_epoch, which may go back.  Rows are only         *)
(* appended, so a row is its position.  What the tools make of the hashes  *)
(* of the rows they return is module ChainTools.                           *)
(***************************************************************************)
EXTENDS Integers, Sequences, FiniteSets, SequencesExt

CONSTANTS
  Epoch,       \* the values of created_epoch
  ToolLimits,  \* the limits clients ask for; any number, by the schemas
  MaxRows      \* bound of the model on the rows

ASSUME ToolsAssumption ==
  /\ Epoch \subseteq Int /\ ToolLimits \subseteq Int
  /\ MaxRows \in Nat

VARIABLES rows, call

toolVars == <<rows, call>>

\* A row's content holds the whole query, a word of it (or a tag does), or
\* neither.  For a timeline with a tag, the rows that carry it are "literal".
ToolRow == [match : {"literal", "word", "none"}, epoch : Epoch]

Literal(table) == {i \in 1 .. Len(table) : table[i].match = "literal"}
Worded(table)  == {i \in 1 .. Len(table) : table[i].match # "none"}

\* LIMIT of SQLite: a negative one is none.
AtMost(limit, order) ==
  IF limit < 0 \/ Len(order) <= limit THEN order ELSE SubSeq(order, 1, limit)

\* ORDER BY created_epoch DESC, rowid DESC
Newer(table, i, j) ==
  \/ table[i].epoch > table[j].epoch
  \/ table[i].epoch = table[j].epoch /\ i > j

\* The rows found that come before one of them, and all of them in order.
Before(table, found, i) == {j \in found : Newer(table, j, i)}

InOrder(table, found) ==
  [k \in 1 .. Cardinality(found) |->
     CHOOSE i \in found : Cardinality(Before(table, found, i)) = k - 1]

Newest(table, found, limit) == AtMost(limit, InOrder(table, found))

\* Mutant: recall does not fall back on the words of the query.
PlanLiteral(tool) ==
  CASE tool = "chain"    -> <<"first", "count">>
    [] tool = "recall"   -> <<"literal", "count">>
    [] tool = "timeline" -> <<"newest">>
    [] tool = "tagged"   -> <<"tagged">>
    [] tool = "export"   -> <<"first">>

\* The statements of a tool, in the order of its code; "tagged" is a timeline
\* with a tag.
Plan(tool) ==
  CASE tool = "chain"    -> <<"first", "count">>
    [] tool = "recall"   -> <<"literal", "words", "count">>
    [] tool = "timeline" -> <<"newest">>
    [] tool = "tagged"   -> <<"tagged">>
    [] tool = "export"   -> <<"first">>

NoToolCall == [tool |-> "none", todo |-> << >>, limit |-> 0, had |-> 0,
               entries |-> << >>, total |-> -1]

ToolsInit == rows = << >> /\ call = NoToolCall

ToolCall(tool) ==
  \E limit \in ToolLimits :
    /\ call.todo = << >>
    /\ call' = [NoToolCall EXCEPT !.tool = tool, !.todo = Plan(tool),
                                  !.limit = limit, !.had = Len(rows)]
    /\ UNCHANGED rows

Statement(name, entries) ==
  /\ call.todo # << >> /\ Head(call.todo) = name
  /\ call' = [call EXCEPT !.todo = Tail(@), !.entries = entries]
  /\ UNCHANGED rows

\* getChain
First == Statement("first", AtMost(call.limit, [i \in 1 .. Len(rows) |-> i]))

\* searchEntries
SearchLiteral == Statement("literal", Newest(rows, Literal(rows), call.limit))

\* searchEntriesFlexible, if the first search found nothing.
SearchWords ==
  Statement("words",
    IF call.entries = << >> THEN Newest(rows, Worded(rows), call.limit)
                            ELSE call.entries)

\* getTimeline
TimelineRows ==
  \/ Statement("newest", Newest(rows, 1 .. Len(rows), call.limit))
  \/ Statement("tagged", Newest(rows, Literal(rows), call.limit))

\* entryCount
Count ==
  /\ call.todo # << >> /\ Head(call.todo) = "count"
  /\ call' = [call EXCEPT !.todo = Tail(@), !.total = Len(rows)]
  /\ UNCHANGED rows

\* Another process appends.
AppendRow ==
  \E row \in ToolRow :
    /\ Len(rows) < MaxRows
    /\ rows' = Append(rows, row)
    /\ UNCHANGED call

ToolsNext ==
  \/ \E tool \in {"chain", "recall", "timeline", "tagged", "export"} :
       ToolCall(tool)
  \/ First \/ SearchLiteral \/ SearchWords \/ TimelineRows \/ Count
  \/ AppendRow

-----------------------------------------------------------------------------

Answered(tools) == call.tool \in tools /\ call.todo = << >>

\* Mutant: a check is partial when there are more rows than were asked for.
IsPartialByLimit(entries, total, limit) == limit >= 0 /\ total > limit

\* isPartialCheck of `chain`
IsPartial(entries, total, limit) == Len(entries) < total

\* A chain check that is not called partial covered every row there was when
\* it ended, also those committed while it ran; one that is called partial
\* really left a row out.
PartialIsHonest ==
  Answered({"chain"}) =>
    (~IsPartial(call.entries, call.total, call.limit)
       <=> call.entries = [i \in 1 .. call.total |-> i])

\* recall and timeline leave out no row that was there when they were called,
\* unless they list as many as were asked for, all of them newer: a row that
\* comes between the two searches of recall hides none.  Only an answer of rows
\* that hold the whole query leaves out those with a word of it: a row that
\* holds it and comes after the first search is listed among them, and
\* "not_found" means that there was neither.
FoundAreNewest ==
  Answered({"recall", "timeline", "tagged"}) =>
    LET table  == SubSeq(rows, 1, call.had)
        listed == ToSet(call.entries)
        whole  == listed # {} /\ listed \subseteq Literal(rows)
        wanted == IF call.tool = "timeline" THEN 1 .. call.had
                  ELSE IF call.tool = "tagged" \/ Literal(table) # {} \/ whole
                    THEN Literal(table)
                  ELSE Worded(table)
        full   == call.limit >= 0 /\ Len(call.entries) >= call.limit
    IN  /\ \A i \in wanted \ listed :
             full /\ \A j \in listed : Newer(rows, j, i)
        /\ call.tool = "recall" /\ Literal(table) # {} =>
             listed \subseteq Literal(rows)

=============================================================================
