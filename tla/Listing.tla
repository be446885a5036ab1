------------------------------- MODULE Listing -------------------------------
(***************************************************************************)
(* A paged list of the web client (users, roles, permissions, files, error *)
(* and audit logs): the server answers a page with two queries, one for    *)
(* the rows and one for their number; the client keeps an answer per page, *)
(* shows the previous one while a page is asked for, asks again when a     *)
(* write of its own succeeds, and goes one page back when a page is empty. *)
(* Beside it, the drop-down that reads all the roles page by page.         *)
(*                                                                         *)
(* Of the rows only their number is kept: the list is ordered by age, so a *)
(* page has as many rows as are left after the pages before it.  What the  *)
(* pager of the list offers, by a total of some time, is any page; the     *)
(* rows of an answer are those there are when it arrives.                  *)
(***************************************************************************)
EXTENDS Integers, FiniteSetsExt

CONSTANTS
  MaxRows,    \* bound: rows the viewer's list may have
  PageSize,   \* rows of a page
  AllSize,    \* the page size of the drop-down
  MaxOwn      \* bound: writes of this client not answered yet

ASSUME ListingAssumption ==
  /\ MaxRows \in Nat /\ MaxOwn \in Nat
  /\ PageSize \in Nat \ {0} /\ AllSize \in Nat \ {0}

Rows == 0..MaxRows
Unknown == -1

\* totalPages of the answer.
TotalPages(total, size) == Max({1, (total + size - 1) \div size})

\* The query keys of the list; another page size has keys of its own, and starts at the
\* first page.
ListPage == 1..TotalPages(MaxRows, PageSize)

VARIABLES
  rows,      \* rows the list has on the server
  mounted,   \* what this behaviour is about: the "list" or the drop-down "all"
  current,   \* the page to show
  answer,    \* per page: its last answer, and whether it is to be asked for again
  fetches,   \* the pages asked for
  kept,      \* the page whose answer was shown last
  own,       \* writes of this client carried out and not answered yet
  loop       \* the loop of the drop-down

listVars == <<rows, mounted, current, answer, fetches, kept, own, loop>>

Read == [len : Rows \cup {Unknown}, total : Rows \cup {Unknown}]
Unread == [len |-> Unknown, total |-> Unknown]

ListingTypeOK ==
  /\ rows \in Rows /\ mounted \in {"list", "all"}
  /\ current \in ListPage /\ kept \in ListPage
  /\ answer \in [ListPage -> [len : 0..PageSize \cup {Unknown},
                             status : {"pending", "success", "error"}, old : BOOLEAN]]
  /\ fetches \subseteq ListPage
  /\ own \in 0..MaxOwn
  /\ loop \in [pc : {"idle", "sent", "done", "failed"}, page : 1..(MaxRows + 2),
               got : 0..((MaxRows + 1) * MaxRows), read : Read]

\* limit and offset of findAll.
Slice(n, page, size) == Max({0, Min({size, n - (page - 1) * size})})

ListingInit ==
  /\ rows \in Rows /\ mounted \in {"list", "all"}
  /\ current = 1 /\ kept = 1
  /\ answer = [p \in ListPage |-> [len |-> Unknown, status |-> "pending", old |-> TRUE]]
  /\ fetches = IF mounted = "list" THEN {1} ELSE {}
  /\ own = 0
  /\ loop = [pc |-> "idle", page |-> 1, got |-> 0, read |-> Unread]

-----------------------------------------------------------------------------
\* What useQuery gives the page: the answer of its key, or the one shown last while
\* there is none (keepPreviousData).
HasAnswer(p) == answer[p].len # Unknown
Shown == IF HasAnswer(current) \/ answer[current].status = "error" THEN current ELSE kept
ShownLen == answer[Shown].len
IsSuccess ==
  \/ answer[current].status = "success"
  \/ answer[current].status = "pending" /\ HasAnswer(kept)

\* The page turns to p, which is asked for if its answer is old.
Observe(p) ==
  /\ current' = p
  /\ kept' = IF HasAnswer(p) THEN p ELSE kept
  /\ fetches' = IF answer[p].old THEN fetches \cup {p} ELSE fetches
  /\ answer' = [answer EXCEPT ![p].status =
                  IF answer[p].old /\ ~HasAnswer(p) THEN "pending" ELSE @]

\* usePagedFallback.
Fallback ==
  /\ mounted = "list" /\ IsSuccess /\ ShownLen = 0 /\ current > 1
  /\ Observe(current - 1)
  /\ UNCHANGED <<rows, mounted, own, loop>>

\* onChange of the pager.
Turn ==
  /\ mounted = "list" /\ ShownLen # Unknown
  /\ \E p \in ListPage \ {current} : Observe(p)
  /\ UNCHANGED <<rows, mounted, own, loop>>

\* The button of renderListEmpty.
Refetch ==
  /\ mounted = "list" /\ answer[current].status = "error" /\ current \notin fetches
  /\ fetches' = fetches \cup {current}
  /\ answer' = [answer EXCEPT ![current].status = IF HasAnswer(current) THEN @ ELSE "pending"]
  /\ UNCHANGED <<rows, mounted, current, kept, own, loop>>

\* The answer arrives, also when the page has turned meanwhile.
Arrives(p) ==
  /\ p \in fetches
  /\ answer' = [answer EXCEPT ![p] = [len |-> Slice(rows, p, PageSize), status |-> "success", old |-> FALSE]]
  /\ fetches' = fetches \ {p}
  /\ kept' = IF p = current THEN p ELSE kept
  /\ UNCHANGED <<rows, mounted, current, own, loop>>

FetchFails(p) ==
  /\ p \in fetches
  /\ fetches' = fetches \ {p}
  /\ answer' = [answer EXCEPT ![p].status = "error", ![p].old = TRUE]
  /\ UNCHANGED <<rows, mounted, current, kept, own, loop>>

\* 30 s pass.
GoesOld(p) ==
  /\ HasAnswer(p) /\ answer' = [answer EXCEPT ![p].old = TRUE]
  /\ UNCHANGED <<rows, mounted, current, fetches, kept, own, loop>>

-----------------------------------------------------------------------------
\* A write of this client is carried out: a row is created or restored, or removed.  Its
\* button spins (deletingIds, restoringIds) till the answer; those of other rows stay.
\* A request under way, or refused, changes nothing here.
OwnWrite ==
  /\ mounted = "list" /\ own < MaxOwn /\ own' = own + 1
  /\ rows' \in {rows - 1, rows + 1} \cap Rows
  /\ UNCHANGED <<mounted, current, answer, fetches, kept, loop>>

\* onSuccess, invalidateQueries: every answer is old, and the page shown is asked for
\* anew.
Invalidate ==
  /\ own > 0 /\ own' = own - 1
  /\ answer' = [p \in ListPage |-> [answer[p] EXCEPT !.old = TRUE,
                  !.status = IF p = current /\ ~HasAnswer(p) THEN "pending" ELSE @]]
  /\ fetches' = fetches \cup {current}
  /\ UNCHANGED <<rows, mounted, current, kept, loop>>

OthersWrite ==
  /\ rows' \in {rows - 1, rows + 1} \cap Rows
  /\ UNCHANGED <<mounted, current, answer, fetches, kept, own, loop>>

-----------------------------------------------------------------------------
\* useAllRoles.
OpenDropDown ==
  /\ mounted = "all" /\ loop.pc # "sent"
  /\ loop' = [pc |-> "sent", page |-> 1, got |-> 0, read |-> Unread]
  /\ UNCHANGED <<rows, mounted, current, answer, fetches, kept, own>>

\* The two queries of a request, in either order.
LoopReads ==
  /\ loop.pc = "sent"
  /\ \/ /\ loop.read.len = Unknown
        /\ loop' = [loop EXCEPT !.read.len = Slice(rows, loop.page, AllSize)]
     \/ loop.read.total = Unknown /\ loop' = [loop EXCEPT !.read.total = rows]
  /\ UNCHANGED <<rows, mounted, current, answer, fetches, kept, own>>

\* Faulty: the loop ends only when it has as many roles as there are.
LastPageByTotal(got, len, total) == got >= total

LastPage(got, len, total) == got >= total \/ len = 0

LoopGoesOn ==
  /\ loop.pc = "sent" /\ Unknown \notin {loop.read.len, loop.read.total}
  /\ LET got == loop.got + loop.read.len
     IN loop' = IF LastPage(got, loop.read.len, loop.read.total)
                  THEN [loop EXCEPT !.pc = "done", !.got = got, !.read = Unread]
                  ELSE [loop EXCEPT !.page = Min({@ + 1, MaxRows + 2}), !.got = got, !.read = Unread]
  /\ UNCHANGED <<rows, mounted, current, answer, fetches, kept, own>>

LoopFails ==
  /\ loop.pc = "sent" /\ loop' = [loop EXCEPT !.pc = "failed", !.read = Unread]
  /\ UNCHANGED <<rows, mounted, current, answer, fetches, kept, own>>

LoopStep == LoopReads \/ LoopGoesOn

-----------------------------------------------------------------------------
UserTurns == Turn \/ Refetch \/ OpenDropDown \/ OwnWrite

ListingNext ==
  \/ Fallback \/ UserTurns \/ Invalidate \/ OthersWrite \/ LoopStep \/ LoopFails
  \/ \E p \in ListPage : Arrives(p) \/ FetchFails(p) \/ GoesOld(p)

ListingFairness ==
  /\ WF_listVars(Fallback) /\ WF_listVars(Invalidate) /\ WF_listVars(LoopStep)
  /\ \A p \in ListPage : WF_listVars(Arrives(p))

ListingSpec == ListingInit /\ [][ListingNext]_listVars /\ ListingFairness

-----------------------------------------------------------------------------
\* Nothing is under way, and the page shown has rows, or is the first, or an error.
ListRests ==
  /\ mounted = "list" =>
       /\ current \notin fetches /\ own = 0
       /\ ShownLen > 0 \/ current = 1 \/ answer[current].status = "error"
  /\ loop.pc # "sent"

(* When nobody turns a page or writes any more, a list comes to rest on a page that has
   rows (or on the first), wherever removals and late answers have left it, and the
   loop that reads all roles ends, whatever was removed while it read. *)
ListsRest == []<><<UserTurns \/ OthersWrite>>_listVars \/ <>[]ListRests
=============================================================================
