----------------------------- MODULE PagedQuery ------------------------------
(***************************************************************************)
(* One call of Sonar._execute_paged_query (src/sonar/api_connection.py):   *)
(* it reads a table of Sonar page by page while the table changes under it *)
(* and requests fail.  The number of pages is taken from the first answer; *)
(* a later page that fails, or whose answer tells another number of pages, *)
(* is skipped and the call goes on with the page after it.                 *)
(*                                                                         *)
(* Rows are their ids; Sonar lists them by id and numbers new ones above   *)
(* all it ever gave out.                                                   *)
(***************************************************************************)
EXTENDS Naturals, Sequences, FiniteSets

CONSTANTS
    PerPage,     \* items_per_page
    MaxRows,     \* bound: rows when the call starts
    MaxInserts,  \* bound: rows that appear during the call
    MaxRemoves,  \* bound: rows that disappear during the call
    MaxFails,    \* bound: requests that fail
    MaxPage      \* pages from this one on are past every end: the counter stops here

ASSUME PageAssumption == /\ PerPage \in Nat \ {0}
                         /\ {MaxRows, MaxInserts, MaxRemoves, MaxFails, MaxPage} \subseteq Nat
                         /\ MaxPage * PerPage > MaxRows + MaxInserts + PerPage

VARIABLES
    table,     \* Sonar's rows, in order
    lastId,    \* the last id given out
    pc,        \* "first", "pages", "returned" or "raised"
    page,      \* the page last asked for
    numPages,  \* total_pages of the first answer
    currPage,  \* page of the last answer taken
    invItems,  \* the rows collected
    stayed,    \* history: the rows there at the first answer and ever since
    skipped,   \* history: pages up to numPages that were not taken
    removes, fails  \* counters for the bounds

call == <<pc, page, numPages, currPage, invItems, skipped, fails>>
vars == <<table, lastId, pc, page, numPages, currPage, invItems, stayed, skipped,
          removes, fails>>

RowsOf(s) == {s[k] : k \in 1..Len(s)}

-----------------------------------------------------------------------------
(* What Sonar answers. *)

TotalPages == IF table = <<>> THEN 1 ELSE (Len(table) + PerPage - 1) \div PerPage

\* A page past the end is empty and bears the number asked for.
Entities(p) == SubSeq(table, (p - 1) * PerPage + 1,
                      IF p * PerPage < Len(table) THEN p * PerPage ELSE Len(table))

-----------------------------------------------------------------------------
Init ==
    /\ \E n \in 0..MaxRows : table = [k \in 1..n |-> k] /\ lastId = n
    /\ pc = "first"
    /\ page = 1
    /\ numPages = 0
    /\ currPage = 0
    /\ invItems = <<>>
    /\ stayed = {}
    /\ skipped = 0
    /\ removes = 0
    /\ fails = 0

Fails == fails < MaxFails /\ fails' = fails + 1

\* The first page fixes the number of pages; when it fails the call raises.
FirstPage ==
    /\ pc = "first"
    /\ \/ /\ pc' = "pages"
          /\ numPages' = TotalPages
          /\ currPage' = page
          /\ invItems' = Entities(page)
          /\ stayed' = RowsOf(table)
          /\ UNCHANGED fails
       \/ /\ Fails
          /\ pc' = "raised"
          /\ UNCHANGED <<numPages, currPage, invItems, stayed>>
    /\ UNCHANGED <<table, lastId, page, skipped, removes>>

\* while currPage < numPages: page += 1
AskForNext ==
    /\ pc = "pages"
    /\ currPage < numPages
    /\ page' = IF page < MaxPage THEN page + 1 ELSE page
    /\ UNCHANGED <<table, lastId, pc, numPages, stayed, removes>>

\* Mutants: the page before is taken once more; the page taken is not noted.
TakeSamePage ==
    /\ AskForNext
    /\ numPages = TotalPages
    /\ currPage' = page'
    /\ invItems' = invItems \o Entities(page)
    /\ UNCHANGED <<skipped, fails>>
TakePageForgets ==
    /\ AskForNext
    /\ numPages = TotalPages
    /\ invItems' = invItems \o Entities(page')
    /\ UNCHANGED <<currPage, skipped, fails>>

TakePage ==
    /\ AskForNext
    /\ numPages = TotalPages
    /\ currPage' = page'
    /\ invItems' = invItems \o Entities(page')
    /\ UNCHANGED <<skipped, fails>>

\* Mutant: an empty entry stands for the page.
SkipWithHole == /\ skipped' = IF page' <= numPages THEN skipped + 1 ELSE skipped
                /\ invItems' = Append(invItems, 0)
                /\ UNCHANGED currPage

\* Nothing of the answer is used; the loop goes on.
Skip == /\ skipped' = IF page' <= numPages THEN skipped + 1 ELSE skipped
        /\ UNCHANGED <<currPage, invItems>>

\* The request fails, or its answer is no dictionary.
RequestFails == AskForNext /\ Fails /\ Skip

\* raise ValueError, which the handler around the loop body catches.
PagesDiffer == AskForNext /\ numPages # TotalPages /\ Skip /\ UNCHANGED fails

\* Mutant: the last page is not waited for.
ReturnEarly ==
    /\ pc = "pages"
    /\ currPage + 1 >= numPages
    /\ pc' = "returned"
    /\ UNCHANGED <<table, lastId, page, numPages, currPage, invItems, stayed, skipped,
                   removes, fails>>

Return ==
    /\ pc = "pages"
    /\ currPage >= numPages
    /\ pc' = "returned"
    /\ UNCHANGED <<table, lastId, page, numPages, currPage, invItems, stayed, skipped,
                   removes, fails>>

-----------------------------------------------------------------------------
(* Sonar's other users, while the call runs. *)

Running == pc \in {"first", "pages"}

Insert ==
    /\ Running
    /\ lastId < MaxRows + MaxInserts
    /\ lastId' = lastId + 1
    /\ table' = Append(table, lastId')
    /\ UNCHANGED <<call, stayed, removes>>

\* The rows behind the one removed move up.
Remove(place) ==
    /\ Running
    /\ removes < MaxRemoves
    /\ removes' = removes + 1
    /\ table' = [k \in 1..(Len(table) - 1) |-> IF k < place THEN table[k] ELSE table[k + 1]]
    /\ stayed' = stayed \ {table[place]}
    /\ UNCHANGED <<call, lastId>>

-----------------------------------------------------------------------------
Call == FirstPage \/ TakePage \/ RequestFails \/ PagesDiffer \/ Return

Over == ~Running /\ UNCHANGED vars

Next == Call \/ Insert \/ (\E place \in 1..Len(table) : Remove(place)) \/ Over

Spec == Init /\ [][Next]_vars

\* The call makes its requests; nobody has to change the table.
FairSpec == Spec /\ WF_vars(Call)

-----------------------------------------------------------------------------
(* Properties. *)

\* The variables have the types their comments give them.
TypeOK ==
    /\ table \in Seq(1..(MaxRows + MaxInserts))
    /\ lastId \in 0..(MaxRows + MaxInserts)
    /\ pc \in {"first", "pages", "returned", "raised"}
    /\ page \in 1..MaxPage
    /\ numPages \in Nat
    /\ currPage \in 0..MaxPage
    /\ invItems \in Seq(1..(MaxRows + MaxInserts))
    /\ stayed \subseteq RowsOf(table)
    /\ {skipped, removes, fails} \subseteq Nat

\* However the table changes while _execute_paged_query reads it, what it has
\* collected is in order: no row is returned twice, which would make the allocator
\* delete the copy it has not paired.
NoRowTwice == \A k \in 1..(Len(invItems) - 1) : invItems[k] < invItems[k + 1]

\* A row that was there during the whole call is missing from the result only if
\* a page was skipped, or a row before it was removed and moved it onto a page
\* already read: each removal hides at most one row, each skipped page one page.
FewMissing ==
    pc = "returned" =>
        Cardinality(stayed \ RowsOf(invItems)) <= removes + skipped * PerPage

\* The call comes to an end when the number of pages settles on the first answer.
EndsWhenPagesSettle ==
    <>[](pc # "pages" \/ TotalPages = numPages) => <>(pc \in {"returned", "raised"})

\* Line 583-585: an answer with a different number of pages is an error that is
\* raised; so the call ends, one way or the other, whatever the table does.
AlwaysEnds == <>(pc \in {"returned", "raised"})
=============================================================================
