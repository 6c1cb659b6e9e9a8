----------------------------- MODULE PagedLists -----------------------------
(***************************************************************************)
(* The lists that are read a page at a time by OFFSET and LIMIT while their *)
(* rows come and go: the audit trail, the review queue and the documents.   *)
(* No transaction spans two requests, and under READ COMMITTED the count    *)
(* and the page of one response are statements with a snapshot each.        *)
(*                                                                         *)
(* A row gets its timestamp before it is committed, so rows may show up in  *)
(* another order than that of their timestamps, and may share one.          *)
(*                                                                         *)
(* Left out: filters by actor or name, which only restrict the rows, and    *)
(* what a row shows besides its event type.  The reader that turns the      *)
(* pages is a client.                                                       *)
(***************************************************************************)
EXTENDS Naturals, FiniteSets

CONSTANTS
    Rows,      \* numbers: the rows' random ids, which ORDER BY may compare
    PageSizes  \* that a client may ask for

ASSUME PagedAssumption ==
    /\ Rows \subseteq Nat /\ IsFiniteSet(Rows)
    /\ PageSizes \subseteq Nat \ {0}

VARIABLES
    view,    \* the list at hand, by whom it is asked for and with what filter
    stamped, \* the rows that have their timestamp
    older,   \* pairs of them: the first one's timestamp is older than the second's
    listed,  \* the committed rows the filter of the list matches
    type,    \* the event type of each row, as it is stored
    reader,  \* a client turning pages
    desk     \* the reviews an engineer has before her, of the first page

pagedVars == <<view, stamped, older, listed, type, reader, desk>>

-----------------------------------------------------------------------------
(* Event types: an old name, its new one, any other, one for admins only *)

EventTypes == {"HITL_APPROVE", "HITL_APPROVED", "INGEST_COMPLETED", "USER_LOGIN"}

AdminOnly == {"USER_LOGIN"}

\* What log_event is given nowadays.
CurrentTypes == EventTypes \ {"HITL_APPROVE"}

Canonical(t) == IF t = "HITL_APPROVE" THEN "HITL_APPROVED" ELSE t

StoredNames(t) == {t} \cup {old \in EventTypes \ CurrentTypes : Canonical(old) = t}

ForRole(role) == IF role = "ENGINEER" THEN EventTypes \ AdminOnly ELSE EventTypes

\* list_audit_events: an engineer who asks for an admin-only type gets nothing.
ListTypes(v) ==
    IF v.wanted = "any" THEN ForRole(v.role) ELSE ForRole(v.role) \cap StoredNames(v.wanted)

Views ==
    [list : {"documents", "reviews"}, role : {"ENGINEER"}, wanted : {"any"}, size : PageSizes]
    \cup
    [list : {"audit"}, role : {"ENGINEER", "ADMIN"}, wanted : {"any"} \cup EventTypes,
     size : PageSizes]

Matching == IF view.list = "audit" THEN {r \in listed : type[r] \in ListTypes(view)} ELSE listed

-----------------------------------------------------------------------------
(* The query of a page *)

SameTime(a, b) == <<a, b>> \notin older /\ <<b, a>> \notin older

\* Faulty: no id in ORDER BY.
EarlierInTime(a, b) == <<a, b>> \in older

\* By timestamp and id; the audit trail leaves ties to the database.
Earlier(a, b) ==
    \/ <<a, b>> \in older
    \/ view.list # "audit" /\ SameTime(a, b) /\ a < b

\* Faulty: the newest first, as in the other lists.
NewestBefore(a, b) == Earlier(b, a)

\* The reviews come oldest question first, the other lists newest first.
Before(a, b) == IF view.list = "reviews" THEN Earlier(a, b) ELSE Earlier(b, a)

\* All answers the query may give, before OFFSET and LIMIT.
Listings ==
    {l \in [1 .. Cardinality(Matching) -> Matching] :
        \A i, j \in DOMAIN l : i < j => l[i] # l[j] /\ ~Before(l[j], l[i])}

Offset(page) == (page - 1) * view.size

Page(listing, page) ==
    {listing[i] : i \in {n \in DOMAIN listing : n > Offset(page) /\ n <= Offset(page) + view.size}}

-----------------------------------------------------------------------------
(* Rows come and go *)

NoReader ==
    [pc |-> "idle", page |-> 1, total |-> 0, seen |-> {}, steady |-> {}, left |-> 0, came |-> 0]

\* Counters stop where they could not tell more.
More(n) == IF n < Cardinality(Rows) THEN n + 1 ELSE n

\* Rows, of ids no one remembers, get the current time.
Stamp(rows) ==
    /\ rows # {}
    /\ rows \cap (stamped \cup desk \cup reader.seen \cup reader.steady) = {}
    /\ stamped' = stamped \cup rows
    /\ older' = older \cup (stamped \X rows)
    /\ type' \in {[r \in Rows |-> IF r \in rows THEN new[r] ELSE type[r]] :
                    new \in [rows -> IF view.list = "audit" THEN CurrentTypes
                                    ELSE {"INGEST_COMPLETED"}]}
    /\ UNCHANGED <<view, listed, reader, desk>>

\* It is committed, held for review, or (a document) changes to the status the
\* list is filtered by.
Come(r) ==
    /\ r \in stamped \ listed
    /\ listed' = listed \cup {r}
    /\ reader' = [reader EXCEPT !.came = IF reader.pc = "idle" THEN 0 ELSE More(@)]
    /\ UNCHANGED <<view, stamped, older, type, desk>>

Forget(r) ==
    /\ stamped' = stamped \ {r}
    /\ older' = {p \in older : r \notin {p[1], p[2]}}

Leaves(r) ==
    /\ listed' = listed \ {r}
    /\ reader' = IF reader.pc = "idle" \/ r \notin listed THEN reader
                 ELSE [reader EXCEPT !.left = More(@), !.steady = @ \ {r}]

\* A document changes to another status.
ChangeStatus(r) ==
    /\ view.list = "documents" /\ r \in listed
    /\ Leaves(r)
    /\ UNCHANGED <<view, stamped, older, type, desk>>

\* A document is deleted, a question ends unheld, or another engineer decides.
\* Audit rows stay.
Delete(r) ==
    /\ view.list # "audit" /\ r \in stamped
    /\ Forget(r)
    /\ Leaves(r)
    /\ UNCHANGED <<view, type, desk>>

-----------------------------------------------------------------------------
(* The client that turns the pages *)

\* The first statement of a request; the review queue has none.  At the first
\* page the client is due all rows that match, by the type that is shown.
Due ==
    IF view.list # "audit" THEN listed
    ELSE {r \in listed : /\ view.role = "ADMIN" \/ type[r] \notin AdminOnly
                         /\ \/ view.wanted \in {"any", type[r]}
                            \/ view.wanted = Canonical(type[r])}

Count ==
    /\ reader.pc \in {"idle", "turning"}
    /\ reader' = [reader EXCEPT !.pc = "counted", !.total = Cardinality(Matching), !.came = 0,
                                !.steady = IF reader.pc = "idle" THEN Due ELSE @]
    /\ UNCHANGED <<view, stamped, older, listed, type, desk>>

\* The second one.  The client stops at a page that is not full or at the total.
Fetch ==
    /\ reader.pc = "counted"
    /\ \E listing \in Listings :
         LET items == Page(listing, reader.page)
             atEnd == \/ Cardinality(items) < view.size
                      \/ view.list # "reviews" /\ reader.page * view.size >= reader.total
         IN
         reader' = [reader EXCEPT !.pc = IF atEnd THEN "done" ELSE "turning",
                                  !.page = IF atEnd THEN @ ELSE @ + 1,
                                  !.total = 0,
                                  !.seen = @ \cup items]
    /\ UNCHANGED <<view, stamped, older, listed, type, desk>>

Rest ==
    /\ reader.pc = "done"
    /\ reader' = NoReader
    /\ UNCHANGED <<view, stamped, older, listed, type, desk>>

-----------------------------------------------------------------------------
(* The engineer who works off the review queue *)

TakeFirstPage ==
    /\ view.list = "reviews" /\ desk = {}
    /\ \E listing \in Listings : desk' = Page(listing, 1)
    /\ UNCHANGED <<view, stamped, older, listed, type, reader>>

\* Refused when another engineer was faster.
DecideOne(r) ==
    /\ r \in desk
    /\ desk' = desk \ {r}
    /\ Forget(r)
    /\ Leaves(r)
    /\ UNCHANGED <<view, type>>

-----------------------------------------------------------------------------
\* There may be audit rows of an earlier release.
PagedInit ==
    /\ view \in Views
    /\ stamped \in IF view.list = "audit" THEN SUBSET Rows ELSE {{}}
    /\ older = {}
    /\ type = [r \in Rows |-> IF r \in stamped THEN "HITL_APPROVE" ELSE "INGEST_COMPLETED"]
    /\ listed = stamped
    /\ reader = NoReader
    /\ desk = {}

PagedNext ==
    \/ Count \/ Fetch \/ Rest \/ TakeFirstPage
    \/ \E rows \in SUBSET Rows : Stamp(rows)
    \/ \E r \in Rows : Come(r) \/ ChangeStatus(r) \/ Delete(r) \/ DecideOne(r)

\* The engineer goes on working: pages are taken and decided.
PagedSpec ==
    /\ PagedInit /\ [][PagedNext]_pagedVars
    /\ WF_pagedVars(TakeFirstPage)
    /\ \A r \in Rows : WF_pagedVars(DecideOne(r))

-----------------------------------------------------------------------------
(* Properties *)

\* Rows whose place in the list the ORDER BY settles.
Placed(r) == view.list # "audit" \/ \A d \in Due : d = r \/ ~SameTime(d, r)

\* Paging by offset loses rows only to movement: of the rows a client was due
\* when it began and that were in the list all the time, it missed no more than
\* left the list meanwhile and came in between the count and the page of the
\* last response.  An audit row it may miss besides if another has its time.
MissedRowsMoved ==
    reader.pc = "done" =>
        Cardinality({r \in reader.steady \ reader.seen : Placed(r)})
            <= reader.left + (IF view.list = "reviews" THEN 0 ELSE reader.came)

\* Oldest question first: while an engineer keeps deciding the first page, no
\* review waits for ever, however many more questions are held.
EveryReviewGetsItsTurn ==
    \A r \in Rows : (view.list = "reviews" /\ r \in listed) ~> r \notin listed
=============================================================================
