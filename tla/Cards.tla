------------------------------- MODULE Cards -------------------------------
(***************************************************************************)
(* The card inventory of one center (apps/cards/services.py) under         *)
(* concurrent request handlers, and the scans that read it.                *)
(*                                                                         *)
(* The API reads cards outside any transaction; a service then reads them  *)
(* again under SELECT ... FOR UPDATE, in the order of their numbers        *)
(* (StudentCard.Meta.ordering).  assign_card looks for another card of the *)
(* student with a plain SELECT, so two handlers can both find none: the    *)
(* partial unique indexes decide, the second writer gets an IntegrityError *)
(* and its transaction is rolled back.  A transaction waits for an index   *)
(* entry only after all its row locks, so waiting and writing are one step.*)
(***************************************************************************)
EXTENDS Naturals, Sequences

CONSTANTS
    Card,         \* primary keys, in the order of the card numbers
    Student,
    Worker,       \* request handlers, each with its own connection
    None,         \* no student, no card, no handler
    MaxRequests   \* bound: requests ever received by the API

Operation == {"ASSIGN", "MARK_LOST", "DISABLE", "DELETE", "REPLACE", "SCAN"}

ASSUME CardsAssumption ==
    /\ Card \subseteq Nat
    /\ MaxRequests \in Nat
    /\ None \notin Card \cup Student \cup Worker

VARIABLES
    cards,     \* the table cards_studentcard
    history,   \* the table cards_cardassignment, in the order of its keys
    events,    \* what the attendance events say: a card, and the student it identified
    lock,      \* row lock of each card
    pc,        \* where each handler stands
    job,       \* what each handler is doing, with the instance it holds
    requests   \* how many requests were received

vars == <<cards, history, events, lock, pc, job, requests>>

-----------------------------------------------------------------------------
(* Rows *)

CardStatus == {"AVAILABLE", "ASSIGNED", "LOST", "DISABLED", "REPLACED"}

StudentCard ==
    [status : CardStatus, current_student : Student \cup {None}, replaced_by : Card \cup {None}]

NotYet == [status |-> "NOT YET"]

Deleted == [status |-> "DELETED"]

Exists(c) == cards[c].status \in CardStatus

HeldBy(c, s) == cards[c].status = "ASSIGNED" /\ cards[c].current_student = s

CardAssignment == [card : Card, student : Student, released : BOOLEAN]

Event == [card : Card, student : Student \cup {None}]

\* Mutant: the history row is forgotten.
Forgotten(rows, c, s) == rows

Opened(rows, c, s) == Append(rows, [card |-> c, student |-> s, released |-> FALSE])

\* Mutant: the history row is removed.
Removed(c) == SelectSeq(history, LAMBDA row : row.card # c)

\* _release: the card's open history row is closed.
Released(c) ==
    [i \in DOMAIN history |->
        IF history[i].card = c THEN [history[i] EXCEPT !.released = TRUE] ELSE history[i]]

\* save(update_fields=["status", "current_student", ...]).
Saved(row, status, student) ==
    [status |-> status, current_student |-> student, replaced_by |-> row.replaced_by]

\* Mutant: the index on a student's active card does not exist.
PerCardIndex(c, s, old) ==
    \A i \in DOMAIN history : ~history[i].released => history[i].card # c

\* The partial unique indexes let the student take the card, once the
\* student's old card (if any) was released in the same transaction.
IndexesAllow(c, s, old) ==
    /\ \A d \in Card \ {old} : ~HeldBy(d, s)
    /\ \A i \in DOMAIN history :
          ~history[i].released =>
              history[i].card # c /\ (history[i].student = s => history[i].card = old)

-----------------------------------------------------------------------------
(* Handlers *)

Step == {"idle", "fetched", "locked", "checked"}

Job ==
    [op : Operation, card : Card, new : Card \cup {None}, student : Student \cup {None},
     row : StudentCard, todo : SUBSET Card]

NoJob == [op |-> "NONE"]

Init ==
    /\ cards = [c \in Card |-> NotYet]
    /\ history = <<>>
    /\ events = {}
    /\ lock = [c \in Card |-> None]
    /\ pc = [w \in Worker |-> "idle"]
    /\ job = [w \in Worker |-> NoJob]
    /\ requests = 0

\* The transaction ends, and the handler answers.
Finish(w) ==
    /\ lock' = [c \in Card |-> IF lock[c] = w THEN None ELSE lock[c]]
    /\ pc' = [pc EXCEPT ![w] = "idle"]
    /\ job' = [job EXCEPT ![w] = NoJob]

\* A batch is imported or generated, by the command, the page or issue's mint.
Stock(batch) ==
    /\ batch # {}
    /\ \A c \in batch : cards[c] = NotYet
    /\ cards' = [c \in Card |->
           IF c \in batch
           THEN [status |-> "AVAILABLE", current_student |-> None, replaced_by |-> None]
           ELSE cards[c]]
    /\ UNCHANGED <<history, events, lock, pc, job, requests>>

\* The API reads the card; issue chooses it among the available ones.
Fetch(w, request) ==
    /\ pc[w] = "idle"
    /\ requests < MaxRequests
    /\ Exists(request.card)
    /\ pc' = [pc EXCEPT ![w] = "fetched"]
    /\ job' = [job EXCEPT ![w] = request]
    /\ requests' = requests + 1
    /\ UNCHANGED <<cards, history, events, lock>>

Request(op, c, new, s) ==
    [op |-> op, card |-> c, new |-> new, student |-> s, row |-> cards[c],
     todo |-> IF op = "SCAN" THEN {} ELSE {c, new} \ {None}]

FetchAssign(w, c, s) == Fetch(w, Request("ASSIGN", c, None, s))

FetchCard(w, op, c) ==
    /\ op \in {"MARK_LOST", "DISABLE", "DELETE", "SCAN"}
    /\ Fetch(w, Request(op, c, None, None))

FetchReplace(w, old, new) ==
    /\ old # new
    /\ Exists(new)
    /\ Fetch(w, Request("REPLACE", old, new, None))

-----------------------------------------------------------------------------
(* Locking *)

\* Mutant: the old card first, then the new one.
OldFirst(w) == IF job[w].card \in job[w].todo THEN job[w].card ELSE job[w].new

\* The row that SELECT ... FOR UPDATE comes to next.
NextRow(w) == CHOOSE c \in job[w].todo : \A d \in job[w].todo : c <= d

LockCard(w) ==
    LET c == NextRow(w)
    IN  /\ pc[w] = "fetched"
        /\ job[w].todo # {}
        /\ Exists(c)
        /\ lock[c] = None
        /\ lock' = [lock EXCEPT ![c] = w]
        /\ job' = [job EXCEPT ![w].todo = @ \ {c}]
        /\ pc' = [pc EXCEPT ![w] = IF job[w].todo = {c} THEN "locked" ELSE "fetched"]
        /\ UNCHANGED <<cards, history, events, requests>>

\* The row was deleted since it was fetched: get() raises DoesNotExist,
\* locked[pk] a KeyError, and nothing was written.
CardVanished(w) ==
    /\ pc[w] = "fetched"
    /\ job[w].todo # {}
    /\ ~Exists(NextRow(w))
    /\ Finish(w)
    /\ UNCHANGED <<cards, history, events, requests>>

\* The worker or its connection dies: the transaction is rolled back.
Abort(w) ==
    /\ pc[w] # "idle"
    /\ Finish(w)
    /\ UNCHANGED <<cards, history, events, requests>>

-----------------------------------------------------------------------------
(* The services, once their cards are locked *)

\* Mutant: the checks look at the instance the API read.
InstanceCard(w) == job[w].row

\* The status the services verify: the locked row's.
CheckedCard(w) == cards[job[w].card]

\* assign_card's own look for another card of the student, without a lock.
StudentHasCard(s) == \E c \in Card : HeldBy(c, s)

CheckStudent(w) ==
    /\ pc[w] = "locked"
    /\ job[w].op = "ASSIGN"
    /\ CheckedCard(w).status = "AVAILABLE"
    /\ ~StudentHasCard(job[w].student)
    /\ pc' = [pc EXCEPT ![w] = "checked"]
    /\ UNCHANGED <<cards, history, events, lock, job, requests>>

AssignCard(w) ==
    LET c == job[w].card
        s == job[w].student
    IN  /\ pc[w] = "checked"
        /\ IndexesAllow(c, s, None)
        /\ cards' = [cards EXCEPT ![c] = Saved(@, "ASSIGNED", s)]
        /\ history' = Opened(history, c, s)
        /\ Finish(w)
        /\ UNCHANGED <<events, requests>>

\* Mutants: the card keeps its holder; the history row stays open.
RetireHeld(w, status) ==
    /\ cards' = [cards EXCEPT ![job[w].card] = Saved(@, status, @.current_student)]
    /\ history' = Released(job[w].card)
    /\ Finish(w)
    /\ UNCHANGED <<events, requests>>

RetireOnly(w, status) ==
    /\ cards' = [cards EXCEPT ![job[w].card] = Saved(@, status, None)]
    /\ Finish(w)
    /\ UNCHANGED <<history, events, requests>>

\* The history row is closed and the card leaves service.
Retire(w, status) ==
    /\ cards' = [cards EXCEPT ![job[w].card] = Saved(@, status, None)]
    /\ history' = Released(job[w].card)
    /\ Finish(w)
    /\ UNCHANGED <<events, requests>>

MarkLost(w) ==
    /\ pc[w] = "locked"
    /\ job[w].op = "MARK_LOST"
    /\ CheckedCard(w).status \notin {"LOST", "REPLACED"}
    /\ Retire(w, "LOST")

\* A card that was lost or replaced may be disabled too.
DisableCard(w) ==
    /\ pc[w] = "locked"
    /\ job[w].op = "DISABLE"
    /\ CheckedCard(w).status # "DISABLED"
    /\ Retire(w, "DISABLED")

\* Mutant: the scans of the card are not looked at.
NeverAssigned(c) ==
    /\ \A i \in DOMAIN history : history[i].card # c
    /\ \A d \in Card : Exists(d) => cards[d].replaced_by # c

\* No history row, no scan event and no replaced card points at it.
NeverUsed(c) ==
    /\ \A i \in DOMAIN history : history[i].card # c
    /\ \A e \in events : e.card # c
    /\ \A d \in Card : Exists(d) => cards[d].replaced_by # c

DeleteCard(w) ==
    LET c == job[w].card
    IN  /\ pc[w] = "locked"
        /\ job[w].op = "DELETE"
        /\ CheckedCard(w).status # "ASSIGNED"
        /\ NeverUsed(c)
        /\ cards' = [cards EXCEPT ![c] = Deleted]
        /\ Finish(w)
        /\ UNCHANGED <<history, events, requests>>

Replaceable(w) ==
    /\ CheckedCard(w).status = "ASSIGNED"
    /\ cards[job[w].new].status = "AVAILABLE"

ReplaceCard(w, old_status) ==
    LET old == job[w].card
        new == job[w].new
        s == CheckedCard(w).current_student
    IN  /\ pc[w] = "locked"
        /\ job[w].op = "REPLACE"
        /\ Replaceable(w)
        /\ IndexesAllow(new, s, old)
        /\ cards' = [cards EXCEPT
               ![old] = [status |-> old_status, current_student |-> None, replaced_by |-> new],
               ![new] = Saved(@, "ASSIGNED", s)]
        /\ history' = Opened(Released(old), new, s)
        /\ Finish(w)
        /\ UNCHANGED <<events, requests>>

\* What the service or, at the latest, an index refuses.
Refused(w) ==
    CASE pc[w] = "checked" -> ~IndexesAllow(job[w].card, job[w].student, None)
      [] pc[w] = "locked" /\ job[w].op = "ASSIGN" ->
             CheckedCard(w).status # "AVAILABLE" \/ StudentHasCard(job[w].student)
      [] pc[w] = "locked" /\ job[w].op = "MARK_LOST" -> CheckedCard(w).status \in {"LOST", "REPLACED"}
      [] pc[w] = "locked" /\ job[w].op = "DISABLE" -> CheckedCard(w).status = "DISABLED"
      [] pc[w] = "locked" /\ job[w].op = "DELETE" ->
             CheckedCard(w).status = "ASSIGNED" \/ ~NeverUsed(job[w].card)
      [] pc[w] = "locked" /\ job[w].op = "REPLACE" ->
             ~Replaceable(w)
             \/ ~IndexesAllow(job[w].new, CheckedCard(w).current_student, job[w].card)
      [] OTHER -> FALSE

Refuse(w) ==
    /\ Refused(w)
    /\ Finish(w)
    /\ UNCHANGED <<cards, history, events, requests>>

-----------------------------------------------------------------------------
(* Scans *)

\* Only an assigned card identifies its holder (gate 2).
Identified(row) == IF row.status = "ASSIGNED" THEN row.current_student ELSE None

\* The event is written with the card as it was read.  Its foreign key makes
\* the commit wait for a transaction that holds the card, and fail when that
\* transaction deleted it.
LogScan(w) ==
    LET c == job[w].card
    IN  /\ pc[w] = "fetched"
        /\ job[w].op = "SCAN"
        /\ lock[c] = None
        /\ IF Exists(c)
           THEN events' = events \cup {[card |-> c, student |-> Identified(job[w].row)]}
           ELSE UNCHANGED events
        /\ Finish(w)
        /\ UNCHANGED <<cards, history, requests>>

-----------------------------------------------------------------------------
Serve(w) ==
    \/ LockCard(w)
    \/ CardVanished(w)
    \/ CheckStudent(w)
    \/ AssignCard(w)
    \/ MarkLost(w)
    \/ DisableCard(w)
    \/ DeleteCard(w)
    \/ \E old_status \in {"REPLACED", "LOST", "DISABLED"} : ReplaceCard(w, old_status)
    \/ Refuse(w)
    \/ LogScan(w)

Next ==
    \/ \E batch \in SUBSET Card : Stock(batch)
    \/ \E w \in Worker :
          \/ \E c \in Card, s \in Student : FetchAssign(w, c, s)
          \/ \E op \in Operation, c \in Card : FetchCard(w, op, c)
          \/ \E old, new \in Card : FetchReplace(w, old, new)
          \/ Serve(w)
          \/ Abort(w)

Spec == Init /\ [][Next]_vars

\* Handlers that were started go on: gunicorn's threads run on their own and
\* PostgreSQL wakes those that wait for a row.
FairSpec == Spec /\ \A w \in Worker : WF_vars(Serve(w))

-----------------------------------------------------------------------------
(* Properties *)

\* The tables, locks and handlers hold what their types say, and a card has
\* a holder exactly while it is assigned: ck_card_holder_matches_status never
\* fires (models.py:100).
TypeOK ==
    /\ cards \in [Card -> StudentCard \cup {NotYet, Deleted}]
    /\ \A c \in Card :
          Exists(c) => (cards[c].status = "ASSIGNED" <=> cards[c].current_student # None)
    /\ history \in Seq(CardAssignment)
    /\ events \subseteq Event
    /\ lock \in [Card -> Worker \cup {None}]
    /\ pc \in [Worker -> Step]
    /\ job \in [Worker -> Job \cup {NoJob}]
    /\ requests \in Nat

\* A card is held by a student exactly while the history has an open row for
\* the two, and that row is the only open one of either: "CardAssignment(open)"
\* while ASSIGNED, released with the card (docs/03-attendance-and-cards.md:199).
HistoryMatchesHolders ==
    /\ \A c \in Card, s \in Student :
          HeldBy(c, s) <=> \E i \in DOMAIN history : history[i] = [card |-> c, student |-> s, released |-> FALSE]
    /\ \A i, j \in DOMAIN history :
          ~history[i].released /\ ~history[j].released /\ i # j =>
              history[i].card # history[j].card /\ history[i].student # history[j].student

\* The students who ever held a card.
Holders(c) == {history[i].student : i \in {j \in DOMAIN history : history[j].card = c}}

\* A card serves one student in its life, even between handlers that saw it
\* available before it was assigned and lost again: "never recycled to another
\* student" (docs/03-attendance-and-cards.md:215).
NeverRecycled ==
    \A i, j \in DOMAIN history : history[i].card = history[j].card => i = j

\* A replacement was held by the student of the card it replaced, and by no
\* other, whichever of the two cards was wanted by another handler too
\* (services.py:233: "same student, history intact").
ReplacementKeepsStudent ==
    \A c \in Card :
        Exists(c) /\ cards[c].replaced_by # None =>
            \E s \in Student : Holders(c) = {s} /\ Holders(cards[c].replaced_by) = {s}

\* Deleting a card rewrites nothing: what history, scans and replaced cards
\* point at is still there, although a scan may read the card before the
\* deletion and log it afterwards (services.py:164).
NothingStranded ==
    /\ \A i \in DOMAIN history : Exists(history[i].card)
    /\ \A e \in events : Exists(e.card)
    /\ \A c \in Card : Exists(c) /\ cards[c].replaced_by # None => Exists(cards[c].replaced_by)

\* Whoever a scan event names held its card at some time, although the scan reads
\* the card without a lock.
ScansNameHolders ==
    \A e \in events : e.student # None => e.student \in Holders(e.card)

\* Every request that reached its service is answered: handlers that lock two
\* cards in opposite roles do not wait for each other.
EveryRequestEnds == \A w \in Worker : pc[w] # "idle" ~> pc[w] = "idle"

Holding == INSTANCE CardHolding
    WITH hand <- [s \in Student |-> {c \in Card : HeldBy(c, s)}],
         spent <- {c \in Card : cards[c].status \notin {"NOT YET", "AVAILABLE"}}

\* The concurrent services implement the inventory: hands receive, swap and
\* give up fresh cards, one at a time.
ImplementsHolding == Holding!Spec
=============================================================================
