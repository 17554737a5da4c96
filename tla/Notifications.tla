--------------------------- MODULE Notifications ---------------------------
(***************************************************************************)
(* The notification feed of one account and a person who pages through it. *)
(*                                                                         *)
(* A notice is inserted, pushed as an event and committed, or rolled back. *)
(* The feed is listed newest first, by the time the inserting transaction  *)
(* began, in pages counted from the first row that matches at the moment   *)
(* of the request; meanwhile notices arrive, and another page of the       *)
(* browser marks notices as read.                                          *)
(***************************************************************************)
EXTENDS Naturals, FiniteSets

CONSTANTS
  Notices,
  PageSize,      (* rows of a page                                         *)
  Asked          (* the filters a walk may use: all, or unread only        *)

NotificationsAssumption ==
  /\ IsFiniteSet(Notices)
  /\ PageSize \in Nat \ {0}
  /\ Asked \subseteq {"all", "unread"}

VARIABLES
  stage,         (* where the transaction of each notice is                *)
  createdAt,     (* the order in which these transactions began            *)
  read,          (* notices marked as read                                 *)
  walk,          (* the page to ask for next, 0 before and after the walk  *)
  filter,        (* what the walk asks for                                 *)
  total,         (* the count that came first in the page's request        *)
  before,        (* the notices the filter matched when the walk began     *)
  shown,         (* notices on the pages so far                            *)
  marked,        (* history: notices were marked during the walk           *)
  cut            (* history: a notice came between the last count and rows *)

feedVars == <<stage, createdAt, read>>
walkVars == <<walk, filter, total, before, shown, marked, cut>>
vars == <<feedVars, walkVars>>

NoTotal == Cardinality(Notices) + 1
Committed == {n \in Notices : stage[n] = "committed"}
Matching(f) == IF f = "all" THEN Committed ELSE Committed \ read

-----------------------------------------------------------------------------
(* Notices.                                                                *)

\* The server's default for created_at is the start of the transaction.
Begin(n) ==
  /\ stage[n] = "none"
  /\ stage' = [stage EXCEPT ![n] = "begun"]
  /\ createdAt' = [createdAt EXCEPT ![n] =
       1 + Cardinality({m \in Notices : stage[m] # "none"})]
  /\ UNCHANGED <<read, walkVars>>

\* Flushed and pushed: whoever listens sees it, committed or not.
Push(n) ==
  /\ stage[n] = "begun"
  /\ stage' = [stage EXCEPT ![n] = "pushed"]
  /\ UNCHANGED <<createdAt, read, walkVars>>

Commit(n) ==
  /\ stage[n] = "pushed"
  /\ stage' = [stage EXCEPT ![n] = "committed"]
  /\ cut' = (cut \/ total # NoTotal)
  /\ UNCHANGED <<createdAt, read, walk, filter, total, before, shown, marked>>

Rollback(n) ==
  /\ stage[n] \in {"begun", "pushed"}
  /\ stage' = [stage EXCEPT ![n] = "rolledBack"]
  /\ UNCHANGED <<createdAt, read, walkVars>>

\* Marks of another page of the browser; marking what is read writes nothing.
Mark(S) ==
  /\ S \ read # {}
  /\ read' = read \cup S
  /\ marked' = (marked \/ walk # 0)
  /\ UNCHANGED <<stage, createdAt, walk, filter, total, before, shown, cut>>

MarkRead(n) == n \in Committed /\ Mark({n})
MarkAllRead == Mark(Committed)

-----------------------------------------------------------------------------
(* A walk through the pages.                                               *)

StartWalk ==
  /\ walk = 0
  /\ \E f \in Asked : /\ filter' = f
                      /\ before' = Matching(f)
  /\ walk' = 1 /\ shown' = {} /\ marked' = FALSE /\ cut' = FALSE
  /\ UNCHANGED <<feedVars, total>>

\* Two statements, each on a snapshot of its own: the count, then the rows.
Count ==
  /\ walk # 0 /\ total = NoTotal
  /\ total' = Cardinality(Matching(filter))
  /\ cut' = FALSE
  /\ UNCHANGED <<feedVars, walk, filter, before, shown, marked>>

\* Mutant: pages are counted from one, offsets too.
OffsetFromOne(page) == page * PageSize
Offset(page) == (page - 1) * PageSize

\* Newest first.
Newer(n, S) == {m \in S : createdAt[m] > createdAt[n]}
Rows(page, S) ==
  {n \in S : Cardinality(Newer(n, S)) \in Offset(page) .. Offset(page) + PageSize - 1}

\* The walk goes on while the count says there is more.
Fetch ==
  /\ walk # 0 /\ total # NoTotal
  /\ shown' = shown \cup Rows(walk, Matching(filter))
  /\ walk' = IF walk * PageSize < total THEN walk + 1 ELSE 0
  /\ total' = NoTotal
  /\ UNCHANGED <<feedVars, filter, before, marked, cut>>

Init ==
  /\ stage = [n \in Notices |-> "none"] /\ createdAt = [n \in Notices |-> 0]
  /\ read = {} /\ walk = 0 /\ filter = "all" /\ total = NoTotal
  /\ before = {} /\ shown = {} /\ marked = FALSE /\ cut = FALSE

Next ==
  \/ \E n \in Notices : Begin(n) \/ Push(n) \/ Commit(n) \/ Rollback(n) \/ MarkRead(n)
  \/ MarkAllRead \/ StartWalk \/ Count \/ Fetch

Spec == Init /\ [][Next]_vars

-----------------------------------------------------------------------------

\* Every variable keeps its shape; only committed notices are read or shown.
TypeOK ==
  /\ stage \in [Notices -> {"none", "begun", "pushed", "committed", "rolledBack"}]
  /\ createdAt \in [Notices -> 0..Cardinality(Notices)]
  /\ walk \in 0..Cardinality(Notices) + 1 /\ filter \in {"all", "unread"} /\ total \in 0..NoTotal
  /\ read \subseteq Committed /\ before \subseteq Committed /\ shown \subseteq Committed
  /\ marked \in BOOLEAN /\ cut \in BOOLEAN

\* Whoever pages through the feed to the end has been shown every notice that
\* was there at the start, whatever arrives meanwhile and in whatever order.
\* Only a walk through the unread notices, while some are marked, leaves out
\* notices that slide onto a page it has behind it; and a notice that arrives
\* between the count and the rows of the last page pushes one off it.
PagingMissesNothing ==
  walk = 0 => before \subseteq shown \/ cut \/ (filter = "unread" /\ marked)
=============================================================================
