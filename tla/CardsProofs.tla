---------------------------- MODULE CardsProofs ----------------------------
(***************************************************************************)
(* Theorems about Cards, for any number of cards, students, handlers and   *)
(* requests.                                                               *)
(***************************************************************************)
EXTENDS Cards, SequenceTheorems, TLAPS

-----------------------------------------------------------------------------
(* Rows *)

\* The rows that stand for no card are no cards, and the idle job no request.
LEMMA NullRows ==
    /\ NotYet \notin StudentCard
    /\ Deleted \notin StudentCard
    /\ NoJob \notin Job
    /\ NotYet.status \notin CardStatus
    /\ Deleted.status \notin CardStatus
<1>1. NotYet.status \notin CardStatus /\ Deleted.status \notin CardStatus
  BY DEF NotYet, Deleted, CardStatus
<1>2. NotYet \notin StudentCard /\ Deleted \notin StudentCard
  BY <1>1 DEF StudentCard
<1>3. NoJob \notin Job
  <2>1. NoJob.op \notin Operation
    BY DEF NoJob, Operation
  <2> QED
    BY <2>1 DEF Job
<1> QED
  BY <1>1, <1>2, <1>3

\* A card that exists is a row of the table.
LEMMA ExistingRow ==
    ASSUME TypeOK, NEW c \in Card, Exists(c)
    PROVE  cards[c] \in StudentCard
BY NullRows DEF TypeOK, Exists

\* _release keeps every history row but for its release.
LEMMA ReleasedRows ==
    ASSUME history \in Seq(CardAssignment), NEW c \in Card
    PROVE  /\ Released(c) \in Seq(CardAssignment)
           /\ DOMAIN Released(c) = DOMAIN history
           /\ Len(Released(c)) = Len(history)
           /\ \A i \in DOMAIN history :
                 /\ Released(c)[i] \in CardAssignment
                 /\ Released(c)[i].card = history[i].card
                 /\ Released(c)[i].student = history[i].student
                 /\ Released(c)[i].released <=> history[i].released \/ history[i].card = c
<1>1. /\ Len(history) \in Nat
      /\ DOMAIN history = 1 .. Len(history)
      /\ \A i \in DOMAIN history : history[i] \in CardAssignment
  BY LenProperties, ElementOfSeq
<1>2. \A i \in DOMAIN history :
         /\ Released(c)[i] \in CardAssignment
         /\ Released(c)[i].card = history[i].card
         /\ Released(c)[i].student = history[i].student
         /\ Released(c)[i].released <=> history[i].released \/ history[i].card = c
  BY <1>1 DEF Released, CardAssignment
<1>3. Released(c) \in [1 .. Len(history) -> CardAssignment]
  BY <1>1, <1>2 DEF Released
<1>4. Released(c) \in Seq(CardAssignment)
  BY <1>1, <1>3
<1>5. DOMAIN Released(c) = DOMAIN history /\ Len(Released(c)) = Len(history)
  BY <1>1, <1>3, <1>4
<1> QED
  BY <1>2, <1>4, <1>5

\* Assigning adds one open history row at the end.
LEMMA OpenedRows ==
    ASSUME NEW rows \in Seq(CardAssignment), NEW c \in Card, NEW s \in Student
    PROVE  /\ Opened(rows, c, s) \in Seq(CardAssignment)
           /\ DOMAIN Opened(rows, c, s) = (DOMAIN rows) \cup {Len(rows) + 1}
           /\ Len(rows) + 1 \notin DOMAIN rows
           /\ \A i \in DOMAIN rows : Opened(rows, c, s)[i] = rows[i]
           /\ Opened(rows, c, s)[Len(rows) + 1] = [card |-> c, student |-> s, released |-> FALSE]
<1> DEFINE row == [card |-> c, student |-> s, released |-> FALSE]
           new == Append(rows, row)
<1>1. row \in CardAssignment
  BY DEF CardAssignment
<1>2. /\ new \in Seq(CardAssignment)
      /\ Len(new) = Len(rows) + 1
      /\ \A i \in 1 .. Len(rows) : new[i] = rows[i]
      /\ new[Len(rows) + 1] = row
  BY <1>1, AppendProperties
<1>3. Len(rows) \in Nat /\ DOMAIN rows = 1 .. Len(rows) /\ DOMAIN new = 1 .. Len(new)
  BY <1>2, LenProperties
<1>4. Opened(rows, c, s) = new
  BY DEF Opened
<1> HIDE DEF new, row
<1>5. DOMAIN new = (DOMAIN rows) \cup {Len(rows) + 1} /\ Len(rows) + 1 \notin DOMAIN rows
  BY <1>2, <1>3
<1> QED
  BY <1>2, <1>3, <1>4, <1>5 DEF row

-----------------------------------------------------------------------------
(* The inductive invariant *)

\* What is left the stock: no card that can be assigned or deleted has a past.
UsedCardsLeft ==
    \A i \in DOMAIN history : cards[history[i].card].status \in CardStatus \ {"AVAILABLE"}

\* What a handler may rely on: the cards it has locked exist and are its own,
\* and the student that it saw on a card did hold it.
HandlerOK(w) ==
    pc[w] # "idle" =>
        LET wanted == {job[w].card, job[w].new} \ {None}
        IN  /\ job[w] \in Job
            /\ job[w].op = "ASSIGN" => job[w].student \in Student
            /\ job[w].op = "REPLACE" => job[w].new \in Card \ {job[w].card}
            /\ job[w].op = "SCAN" => pc[w] = "fetched" /\ job[w].todo = {}
            /\ job[w].op # "SCAN" =>
                  \A c \in wanted \ job[w].todo : lock[c] = w /\ Exists(c)
            /\ pc[w] \in {"locked", "checked"} => job[w].todo = {}
            /\ pc[w] = "checked" => job[w].op = "ASSIGN" /\ cards[job[w].card].status = "AVAILABLE"
            /\ Identified(job[w].row) # None => Identified(job[w].row) \in Holders(job[w].card)

\* HistoryMatchesHolders alone is not inductive: that a card which is assigned
\* has no past needs UsedCardsLeft, and that it is still free at the commit
\* needs HandlerOK.
CardsInv ==
    /\ TypeOK
    /\ \A w \in Worker : HandlerOK(w)
    /\ UsedCardsLeft
    /\ HistoryMatchesHolders
    /\ NeverRecycled
    /\ ReplacementKeepsStudent
    /\ NothingStranded
    /\ ScansNameHolders

-----------------------------------------------------------------------------
(* The two halves of the invariant: what the tables say, and the handlers *)

TablesTyped ==
    /\ cards \in [Card -> StudentCard \cup {NotYet, Deleted}]
    /\ \A c \in Card :
          Exists(c) => (cards[c].status = "ASSIGNED" <=> cards[c].current_student # None)
    /\ history \in Seq(CardAssignment)
    /\ events \subseteq Event

Tables ==
    /\ TablesTyped
    /\ UsedCardsLeft
    /\ HistoryMatchesHolders
    /\ NeverRecycled
    /\ ReplacementKeepsStudent
    /\ NothingStranded
    /\ ScansNameHolders

HandlersTyped ==
    /\ lock \in [Card -> Worker \cup {None}]
    /\ pc \in [Worker -> Step]
    /\ job \in [Worker -> Job \cup {NoJob}]
    /\ requests \in Nat

Handlers == HandlersTyped /\ \A w \in Worker : HandlerOK(w)

\* The inductive invariant is about the tables and about the handlers.
LEMMA Halves == CardsInv <=> Tables /\ Handlers
BY DEF CardsInv, Tables, Handlers, TablesTyped, HandlersTyped, TypeOK

\* The holders of a card are read off its history rows.
LEMMA HoldersRows ==
    ASSUME NEW c
    PROVE  \A s : s \in Holders(c) <=> \E i \in DOMAIN history : history[i].card = c /\ history[i].student = s
BY DEF Holders

\* Open history rows are equal when their cards and students are.
LEMMA RowEqual ==
    ASSUME NEW c, NEW s, NEW d, NEW t
    PROVE  [card |-> c, student |-> s, released |-> FALSE] = [card |-> d, student |-> t, released |-> FALSE]
              <=> d = c /\ t = s
OBVIOUS

\* The same from what the tables say alone.
LEMMA ExistingCard ==
    ASSUME TablesTyped, NEW c \in Card, Exists(c)
    PROVE  cards[c] \in StudentCard
BY NullRows DEF TablesTyped, Exists

\* Losing or disabling a card keeps the tables.
LEMMA RetireTables ==
    ASSUME Tables, NEW c \in Card, Exists(c), NEW status \in {"LOST", "DISABLED"},
           cards' = [cards EXCEPT ![c] = Saved(@, status, None)],
           history' = Released(c),
           events' = events
    PROVE  Tables' /\ \A d \in Card : Holders(d)' = Holders(d)
<1> USE DEF Tables
<1>1. /\ history' \in Seq(CardAssignment)
      /\ DOMAIN history' = DOMAIN history
      /\ \A i \in DOMAIN history :
            /\ history'[i] \in CardAssignment
            /\ history'[i].card = history[i].card
            /\ history'[i].student = history[i].student
            /\ history'[i].released <=> history[i].released \/ history[i].card = c
  BY ReleasedRows DEF TablesTyped
<1>2. \A i \in DOMAIN history : history[i] \in CardAssignment
  BY LenProperties, ElementOfSeq DEF TablesTyped
<1>3. cards[c] \in StudentCard
  BY ExistingCard
<1>4. /\ cards' \in [Card -> StudentCard \cup {NotYet, Deleted}]
      /\ cards'[c] = [status |-> status, current_student |-> None, replaced_by |-> cards[c].replaced_by]
      /\ \A d \in Card \ {c} : cards'[d] = cards[d]
  <2>1. Saved(cards[c], status, None) \in StudentCard
    BY <1>3 DEF Saved, StudentCard, CardStatus
  <2> QED
    BY <2>1 DEF Saved, TablesTyped
<1>5. Exists(c)' /\ \A d \in Card : Exists(d)' <=> Exists(d)
  BY <1>4 DEF Exists, CardStatus
<1>6. \A d \in Card : Holders(d)' = Holders(d)
  BY <1>1 DEF Holders
<1>7. TablesTyped'
  <2>1. \A d \in Card : Exists(d)' => (cards'[d].status = "ASSIGNED" <=> cards'[d].current_student # None)
    BY <1>4, <1>5 DEF TablesTyped
  <2> QED
    BY <1>1, <1>4, <2>1 DEF TablesTyped
<1>8. UsedCardsLeft'
  BY <1>1, <1>2, <1>4 DEF UsedCardsLeft, CardStatus, CardAssignment
<1>9. HistoryMatchesHolders'
  <2>1. \A d \in Card, s \in Student : HeldBy(d, s)' <=> d # c /\ HeldBy(d, s)
    BY <1>4 DEF HeldBy
  <2>2. ASSUME NEW d \in Card, NEW s \in Student, NEW i \in DOMAIN history
        PROVE  history'[i] = [card |-> d, student |-> s, released |-> FALSE]
                  <=> d # c /\ history[i] = [card |-> d, student |-> s, released |-> FALSE]
    BY <1>1, <1>2 DEF CardAssignment
  <2>3. \A i, j \in DOMAIN history' :
           ~history'[i].released /\ ~history'[j].released /\ i # j =>
               history'[i].card # history'[j].card /\ history'[i].student # history'[j].student
    BY <1>1 DEF HistoryMatchesHolders
  <2>4. \A d \in Card, s \in Student :
           HeldBy(d, s)' <=> \E i \in DOMAIN history' : history'[i] = [card |-> d, student |-> s, released |-> FALSE]
    <3> TAKE d \in Card, s \in Student
    <3> DEFINE row == [card |-> d, student |-> s, released |-> FALSE]
    <3>1. HeldBy(d, s) <=> \E i \in DOMAIN history : history[i] = row
      BY DEF HistoryMatchesHolders
    <3>2. \A i \in DOMAIN history : history'[i] = row <=> d # c /\ history[i] = row
      BY <2>2
    <3> HIDE DEF row
    <3>3. HeldBy(d, s)' <=> \E i \in DOMAIN history' : history'[i] = row
      BY <1>1, <2>1, <3>1, <3>2
    <3> QED
      BY <3>3 DEF row
  <2> QED
    BY <2>3, <2>4 DEF HistoryMatchesHolders
<1>10. NeverRecycled'
  BY <1>1 DEF NeverRecycled
<1>11. \A d \in Card : Exists(d) => cards'[d].replaced_by = cards[d].replaced_by
  BY <1>3, <1>4
<1>12. ReplacementKeepsStudent'
  <2> SUFFICES ASSUME NEW d \in Card, Exists(d)', cards'[d].replaced_by # None
               PROVE  \E s \in Student : Holders(d)' = {s} /\ Holders(cards[d].replaced_by)' = {s}
    BY <1>5, <1>11 DEF ReplacementKeepsStudent
  <2>1. cards[d].replaced_by \in Card
    BY <1>5, <1>11, ExistingCard DEF StudentCard
  <2> QED
    BY <1>5, <1>6, <1>11, <2>1 DEF ReplacementKeepsStudent
<1>13. NothingStranded'
  <2>1. \A d \in Card : Exists(d) /\ cards[d].replaced_by # None => cards[d].replaced_by \in Card
    BY ExistingCard DEF StudentCard
  <2>2. \A i \in DOMAIN history' : Exists(history[i].card)'
    BY <1>1, <1>2, <1>5 DEF NothingStranded, CardAssignment
  <2>3. \A e \in events' : Exists(e.card)'
    BY <1>5 DEF NothingStranded, TablesTyped, Event
  <2> QED
    BY <1>1, <1>5, <1>11, <2>1, <2>2, <2>3 DEF NothingStranded
<1>14. ScansNameHolders'
  BY <1>6 DEF ScansNameHolders, TablesTyped, Event
<1> QED
  BY <1>6, <1>7, <1>8, <1>9, <1>10, <1>12, <1>13, <1>14

\* A student takes a fresh card, and gives up the old one if there is any:
\* what assign_card and replace_card have in common.
LEMMA TakeTables ==
    ASSUME Tables, NEW c \in Card, cards[c].status = "AVAILABLE", NEW s \in Student,
           NEW old \in Card \cup {None}, old # c,
           NEW n, n \notin DOMAIN history,
           old # None => HeldBy(old, s),
           IndexesAllow(c, s, old),
           history' \in Seq(CardAssignment),
           DOMAIN history' = (DOMAIN history) \cup {n},
           \A i \in DOMAIN history :
              /\ history'[i] \in CardAssignment
              /\ history'[i].card = history[i].card
              /\ history'[i].student = history[i].student
              /\ history'[i].released <=> history[i].released \/ history[i].card = old,
           history'[n] = [card |-> c, student |-> s, released |-> FALSE],
           cards' \in [Card -> StudentCard \cup {NotYet, Deleted}],
           cards'[c] = Saved(cards[c], "ASSIGNED", s),
           old # None =>
              /\ cards'[old].status \in {"REPLACED", "LOST", "DISABLED"}
              /\ cards'[old].current_student = None
              /\ cards'[old].replaced_by = c,
           \A d \in Card \ {c, old} : cards'[d] = cards[d],
           events' = events
    PROVE  Tables' /\ \A d \in Card : Holders(d) \subseteq Holders(d)'
<1> USE DEF Tables
<1>1. \A i \in DOMAIN history : history[i] \in CardAssignment
  BY LenProperties, ElementOfSeq DEF TablesTyped
<1>2. Exists(c) /\ cards[c] \in StudentCard
  BY ExistingCard DEF Exists, CardStatus
<1>3. \A i \in DOMAIN history : history[i].card # c
  BY DEF UsedCardsLeft
<1>4. None \notin Card /\ None \notin Student
  BY CardsAssumption
<1>5. /\ cards'[c].status = "ASSIGNED"
      /\ cards'[c].current_student = s
      /\ cards'[c].replaced_by = cards[c].replaced_by
  BY DEF Saved
<1>6. /\ old # None => Exists(old) /\ cards'[old].status \in CardStatus
      /\ Exists(c)'
      /\ \A d \in Card \ {c, old} : Exists(d)' <=> Exists(d)
  BY <1>5 DEF Exists, HeldBy, CardStatus
<1>7. \A d \in Card : Exists(d)' <=> Exists(d)
  BY <1>2, <1>4, <1>6 DEF Exists
<1>8. TablesTyped'
  <2>1. \A d \in Card : Exists(d)' => (cards'[d].status = "ASSIGNED" <=> cards'[d].current_student # None)
    BY <1>4, <1>5, <1>7 DEF TablesTyped
  <2> QED
    BY <2>1 DEF TablesTyped
<1>9. UsedCardsLeft'
  <2> SUFFICES ASSUME NEW i \in DOMAIN history'
               PROVE  cards'[history'[i].card].status \in CardStatus \ {"AVAILABLE"}
    BY DEF UsedCardsLeft
  <2>1. CASE i = n
    BY <1>5, <2>1 DEF CardStatus
  <2>2. CASE i \in DOMAIN history /\ history[i].card = old
    <3>1. old \in Card /\ cards'[old].status \in {"REPLACED", "LOST", "DISABLED"}
      BY <1>1, <1>4, <2>2 DEF CardAssignment
    <3> QED
      BY <2>2, <3>1 DEF CardStatus
  <2>3. CASE i \in DOMAIN history /\ history[i].card # old
    <3>1. history[i].card \in Card \ {c, old}
      BY <1>1, <1>3, <2>3 DEF CardAssignment
    <3> QED
      BY <2>3, <3>1 DEF UsedCardsLeft
  <2> QED
    BY <2>1, <2>2, <2>3
<1>10. HistoryMatchesHolders'
  <2>1. \A d \in Card, t \in Student :
           HeldBy(d, t)' <=> (d = c /\ t = s) \/ (d \notin {c, old} /\ HeldBy(d, t))
    BY <1>4, <1>5 DEF HeldBy
  <2>2. \A d \in Card, t \in Student :
           HeldBy(d, t)' <=> \E i \in DOMAIN history' : history'[i] = [card |-> d, student |-> t, released |-> FALSE]
    <3> TAKE d \in Card, t \in Student
    <3> DEFINE row == [card |-> d, student |-> t, released |-> FALSE]
    <3>1. HeldBy(d, t) <=> \E i \in DOMAIN history : history[i] = row
      BY DEF HistoryMatchesHolders
    <3>2. \A i \in DOMAIN history : history'[i] = row <=> d # old /\ history[i] = row
      BY <1>1 DEF CardAssignment
    <3>3. history'[n] = row <=> d = c /\ t = s
      BY RowEqual
    <3>4. ~HeldBy(c, t)
      BY DEF HeldBy
    <3> HIDE DEF row
    <3>5. HeldBy(d, t)' <=> \E i \in DOMAIN history' : history'[i] = row
      BY <2>1, <3>1, <3>2, <3>3, <3>4
    <3> QED
      BY <3>5 DEF row
  <2>3. ASSUME NEW i \in DOMAIN history, ~history'[i].released
        PROVE  history'[i].card # c /\ history'[i].student # s
    BY <2>3 DEF IndexesAllow
  <2>4. \A i, j \in DOMAIN history' :
           ~history'[i].released /\ ~history'[j].released /\ i # j =>
               history'[i].card # history'[j].card /\ history'[i].student # history'[j].student
    <3> SUFFICES ASSUME NEW i \in DOMAIN history', NEW j \in DOMAIN history',
                        ~history'[i].released, ~history'[j].released, i # j
                 PROVE  history'[i].card # history'[j].card /\ history'[i].student # history'[j].student
      OBVIOUS
    <3>1. CASE i \in DOMAIN history /\ j \in DOMAIN history
      BY <3>1 DEF HistoryMatchesHolders
    <3>2. CASE i = n /\ j \in DOMAIN history
      BY <2>3, <3>2
    <3>3. CASE i \in DOMAIN history /\ j = n
      BY <2>3, <3>3
    <3> QED
      BY <3>1, <3>2, <3>3
  <2> QED
    BY <2>2, <2>4 DEF HistoryMatchesHolders
<1>11. NeverRecycled'
  BY <1>3 DEF NeverRecycled
<1>12. /\ Holders(c) = {}
       /\ Holders(c)' = {s}
       /\ \A d \in Card \ {c} : Holders(d)' = Holders(d)
  BY <1>3 DEF Holders
<1>13. old # None => Holders(old) = {s}
  <2> SUFFICES ASSUME old # None
               PROVE  Holders(old) = {s}
    OBVIOUS
  <2>1. PICK i \in DOMAIN history : history[i] = [card |-> old, student |-> s, released |-> FALSE]
    BY DEF HistoryMatchesHolders
  <2>2. \A j \in DOMAIN history : history[j].card = old => j = i
    BY <2>1 DEF NeverRecycled
  <2> QED
    BY <2>1, <2>2 DEF Holders
<1>14. \A d \in Card : Exists(d) => cards[d].replaced_by \in Card \cup {None}
  BY ExistingCard DEF StudentCard
<1>15. ReplacementKeepsStudent'
  <2> SUFFICES ASSUME NEW d \in Card, Exists(d)', cards'[d].replaced_by # None
               PROVE  \E t \in Student : Holders(d)' = {t} /\ Holders(cards[d].replaced_by)' = {t}
    BY DEF ReplacementKeepsStudent
  <2>1. CASE d = old
    <3>1. cards'[d].replaced_by = c /\ old # None
      BY <1>4, <2>1
    <3>2. Holders(cards[d].replaced_by)' = Holders(c)'
      BY <3>1
    <3> QED
      BY <1>12, <1>13, <2>1, <3>1, <3>2
  <2>2. CASE d # old
    <3>1. cards'[d].replaced_by = cards[d].replaced_by /\ Exists(d)
      BY <1>5, <1>7, <2>2
    <3>2. PICK t \in Student : Holders(d) = {t} /\ Holders(cards[d].replaced_by) = {t}
      BY <3>1 DEF ReplacementKeepsStudent
    <3>3. d # c /\ cards[d].replaced_by # c
      BY <1>12, <3>2
    <3>4. cards[d].replaced_by \in Card
      BY <1>14, <3>1
    <3>5. Holders(cards[d].replaced_by)' = Holders(cards[d].replaced_by)
      <4> DEFINE r == cards[d].replaced_by
      <4>1. PICK x \in Card : x = cards[d].replaced_by
        BY <3>4
      <4>2. Holders(x)' = Holders(x)
        BY <1>12, <3>3, <4>1
      <4>3. cards'[d].replaced_by = x
        BY <3>1, <4>1
      <4>4. Holders(cards[d].replaced_by)' = Holders(x)'
        BY <4>3
      <4> QED
        BY <4>1, <4>2, <4>4
    <3> QED
      BY <1>12, <3>2, <3>3, <3>5
  <2> QED
    BY <2>1, <2>2
<1>16. NothingStranded'
  <2>1. \A i \in DOMAIN history' : Exists(history[i].card)'
    <3> SUFFICES ASSUME NEW i \in DOMAIN history'
                 PROVE  cards'[history'[i].card].status \in CardStatus
      BY DEF Exists
    <3> QED
      BY <1>9 DEF UsedCardsLeft
  <2>2. \A e \in events' : Exists(e.card)'
    BY <1>7 DEF NothingStranded, TablesTyped, Event
  <2>3. ASSUME NEW d \in Card, Exists(d)', cards'[d].replaced_by # None
        PROVE  Exists(cards[d].replaced_by)'
    <3>1. CASE d = old
      <4>1. cards'[d].replaced_by = c
        BY <1>4, <3>1
      <4> QED
        BY <1>5, <4>1 DEF Exists, CardStatus
    <3>2. CASE d # old
      <4>1. cards'[d].replaced_by = cards[d].replaced_by /\ Exists(d)
        BY <1>5, <1>7, <2>3, <3>2
      <4>2. cards[d].replaced_by \in Card /\ Exists(cards[d].replaced_by)
        BY <1>14, <2>3, <4>1 DEF NothingStranded
      <4>3. PICK x \in Card : x = cards[d].replaced_by /\ Exists(x)
        BY <4>2
      <4>4. cards'[d].replaced_by = x /\ Exists(x)'
        BY <1>7, <4>1, <4>3
      <4> QED
        BY <4>4 DEF Exists
    <3> QED
      BY <3>1, <3>2
  <2> QED
    BY <2>1, <2>2, <2>3 DEF NothingStranded
<1>17. \A d \in Card : Holders(d) \subseteq Holders(d)'
  BY <1>12
<1>18. ScansNameHolders'
  BY <1>17 DEF ScansNameHolders, TablesTyped, Event
<1> QED
  BY <1>8, <1>9, <1>10, <1>11, <1>15, <1>16, <1>17, <1>18

\* A step that leaves history and events alone, and of the cards changes only
\* some that nothing refers to and nobody holds, keeps the tables: stocking
\* and deleting.
LEMMA StockTables ==
    ASSUME Tables, NEW changed \in SUBSET Card,
           \A c \in changed :
              /\ Holders(c) = {}
              /\ \A i \in DOMAIN history : history[i].card # c
              /\ \A e \in events : e.card # c
              /\ \A d \in Card : Exists(d) => cards[d].replaced_by # c
              /\ cards'[c] = Deleted
                    \/ cards'[c] = [status |-> "AVAILABLE", current_student |-> None, replaced_by |-> None],
           \A c \in Card \ changed : cards'[c] = cards[c],
           cards' \in [Card -> StudentCard \cup {NotYet, Deleted}],
           history' = history, events' = events
    PROVE  Tables' /\ \A d \in Card : Holders(d)' = Holders(d)
<1> USE DEF Tables
<1>1. \A i \in DOMAIN history : history[i] \in CardAssignment
  BY LenProperties, ElementOfSeq DEF TablesTyped
<1>2. \A d \in Card : Holders(d)' = Holders(d)
  BY DEF Holders
<1>3. \A c \in changed :
         /\ cards'[c].status \in {"AVAILABLE", "DELETED"}
         /\ cards'[c].status = "AVAILABLE" => cards'[c].current_student = None /\ cards'[c].replaced_by = None
         /\ Exists(c)' => cards'[c].status = "AVAILABLE"
  BY DEF Deleted, Exists, CardStatus
<1>4. \A d \in Card \ changed : Exists(d)' <=> Exists(d)
  BY DEF Exists
<1>5. TablesTyped'
  <2>1. \A d \in Card : Exists(d)' => (cards'[d].status = "ASSIGNED" <=> cards'[d].current_student # None)
    BY <1>3, <1>4 DEF TablesTyped
  <2> QED
    BY <2>1 DEF TablesTyped
<1>6. UsedCardsLeft'
  BY <1>1 DEF UsedCardsLeft, CardAssignment
<1>7. HistoryMatchesHolders'
  <2>1. \A d \in Card, t \in Student : HeldBy(d, t)' <=> d \notin changed /\ HeldBy(d, t)
    BY <1>3 DEF HeldBy
  <2>2. \A d \in Card, t \in Student :
           HeldBy(d, t)' <=> \E i \in DOMAIN history' : history'[i] = [card |-> d, student |-> t, released |-> FALSE]
    BY <2>1 DEF HistoryMatchesHolders
  <2> QED
    BY <2>2 DEF HistoryMatchesHolders
<1>8. NeverRecycled'
  BY DEF NeverRecycled
<1>9. \A d \in Card : Exists(d)' /\ cards'[d].replaced_by # None =>
         d \notin changed /\ Exists(d) /\ cards'[d].replaced_by = cards[d].replaced_by
  BY <1>3, <1>4
<1>10. \A d \in Card : Exists(d) /\ cards[d].replaced_by # None => cards[d].replaced_by \in Card \ changed
  BY ExistingCard DEF StudentCard
<1>11. ReplacementKeepsStudent'
  <2> SUFFICES ASSUME NEW d \in Card, Exists(d)', cards'[d].replaced_by # None
               PROVE  \E t \in Student : Holders(d)' = {t} /\ Holders(cards[d].replaced_by)' = {t}
    BY DEF ReplacementKeepsStudent
  <2>1. PICK x \in Card \ changed : x = cards[d].replaced_by
    BY <1>9, <1>10
  <2>2. Holders(x)' = Holders(x) /\ cards'[d].replaced_by = x
    BY <1>2, <1>9, <2>1
  <2>3. Holders(cards[d].replaced_by)' = Holders(x)'
    BY <2>2
  <2> QED
    BY <1>2, <1>9, <2>1, <2>2, <2>3 DEF ReplacementKeepsStudent
<1>12. NothingStranded'
  <2>1. \A i \in DOMAIN history' : Exists(history[i].card)'
    BY <1>1, <1>4 DEF NothingStranded, CardAssignment
  <2>2. \A e \in events' : Exists(e.card)'
    BY <1>4 DEF NothingStranded, TablesTyped, Event
  <2>3. ASSUME NEW d \in Card, Exists(d)', cards'[d].replaced_by # None
        PROVE  Exists(cards[d].replaced_by)'
    <3>1. PICK x \in Card \ changed : x = cards[d].replaced_by
      BY <1>9, <1>10, <2>3
    <3>2. cards'[d].replaced_by = x /\ Exists(x)
      BY <1>9, <2>3, <3>1 DEF NothingStranded
    <3> QED
      BY <1>4, <3>2 DEF Exists
  <2> QED
    BY <2>1, <2>2, <2>3 DEF NothingStranded
<1>13. ScansNameHolders'
  BY <1>2 DEF ScansNameHolders, TablesTyped, Event
<1> QED
  BY <1>2, <1>5, <1>6, <1>7, <1>8, <1>11, <1>12, <1>13

\* An event that names an existing card, and nobody but a holder of it, keeps
\* the tables.
LEMMA ScanTables ==
    ASSUME Tables, NEW c \in Card, Exists(c), NEW s \in Student \cup {None},
           s # None => s \in Holders(c),
           events' = events \cup {[card |-> c, student |-> s]},
           cards' = cards, history' = history
    PROVE  Tables'
<1> USE DEF Tables
<1>1. \A d : Holders(d)' = Holders(d) /\ (Exists(d)' <=> Exists(d))
  BY DEF Holders, Exists
<1>2. TablesTyped'
  BY DEF TablesTyped, Event, Exists
<1>3. UsedCardsLeft' /\ NeverRecycled'
  BY DEF UsedCardsLeft, NeverRecycled
<1>4. HistoryMatchesHolders'
  BY DEF HistoryMatchesHolders, HeldBy
<1>5. ReplacementKeepsStudent'
  <2> SUFFICES ASSUME NEW d \in Card, Exists(d), cards[d].replaced_by # None
               PROVE  \E t \in Student : Holders(d)' = {t} /\ Holders(cards[d].replaced_by)' = {t}
    BY DEF ReplacementKeepsStudent, Exists
  <2>1. PICK x : x = cards[d].replaced_by
    OBVIOUS
  <2>2. cards'[d].replaced_by = x
    BY <2>1
  <2>3. Holders(cards[d].replaced_by)' = Holders(x)'
    BY <2>2
  <2> QED
    BY <1>1, <2>1, <2>3 DEF ReplacementKeepsStudent
<1>6. NothingStranded'
  BY <1>1 DEF NothingStranded, Exists
<1>7. ScansNameHolders'
  BY <1>1 DEF ScansNameHolders
<1> QED
  BY <1>2, <1>3, <1>4, <1>5, <1>6, <1>7

\* Tables that nobody writes stay as they are.
LEMMA SameTables ==
    ASSUME Tables, cards' = cards, history' = history, events' = events
    PROVE  Tables' /\ \A d \in Card : Holders(d)' = Holders(d)
<1>1. cards' \in [Card -> StudentCard \cup {NotYet, Deleted}]
  BY DEF Tables, TablesTyped
<1>2. PICK changed \in SUBSET Card : changed = {}
  OBVIOUS
<1>3. \A c \in changed : FALSE
  BY <1>2
<1>4. \A c \in Card \ changed : cards'[c] = cards[c]
  OBVIOUS
<1> QED
  BY <1>1, <1>3, <1>4, StockTables

-----------------------------------------------------------------------------
(* Handlers *)

\* A step of somebody else, which takes no lock and touches no card of a
\* handler and removes no history row, keeps what the handler relies on.
LEMMA OtherHandler ==
    ASSUME NEW v \in Worker, HandlerOK(v), pc'[v] = pc[v], job'[v] = job[v],
           \A c \in Card : lock[c] = v => lock'[c] = v,
           \A c \in Card : lock[c] = v /\ Exists(c) => cards'[c] = cards[c],
           \A c \in Card : Holders(c) \subseteq Holders(c)'
    PROVE  HandlerOK(v)'
<1> SUFFICES ASSUME pc[v] # "idle"
             PROVE  HandlerOK(v)'
  BY DEF HandlerOK
<1> DEFINE wanted == {job[v].card, job[v].new} \ {None}
<1>1. job[v] \in Job
  BY DEF HandlerOK
<1>2. job[v].card \in Card /\ wanted \subseteq Card /\ job[v].card \in wanted
  BY <1>1, CardsAssumption DEF Job
<1>3. /\ job[v].op = "ASSIGN" => job[v].student \in Student
      /\ job[v].op = "REPLACE" => job[v].new \in Card \ {job[v].card}
      /\ job[v].op = "SCAN" => pc[v] = "fetched" /\ job[v].todo = {}
      /\ job[v].op # "SCAN" => \A c \in wanted \ job[v].todo : lock[c] = v /\ Exists(c)
      /\ pc[v] \in {"locked", "checked"} => job[v].todo = {}
      /\ pc[v] = "checked" => job[v].op = "ASSIGN" /\ cards[job[v].card].status = "AVAILABLE"
      /\ Identified(job[v].row) # None => Identified(job[v].row) \in Holders(job[v].card)
  BY DEF HandlerOK
<1>4. PICK j : j = job[v]
  OBVIOUS
<1>5. j.op # "SCAN" => \A c \in wanted \ j.todo : lock'[c] = v /\ Exists(c)'
  BY <1>2, <1>3, <1>4 DEF Exists
<1>6. pc[v] = "checked" => cards'[j.card].status = "AVAILABLE"
  BY <1>2, <1>3, <1>4
<1>7. Identified(j.row) # None => Identified(j.row) \in Holders(j.card)'
  BY <1>2, <1>3, <1>4
<1>8. Identified(job[v].row)' = Identified(j.row) /\ Holders(job[v].card)' = Holders(j.card)'
  BY <1>4 DEF Identified
<1> QED
  BY <1>1, <1>3, <1>4, <1>5, <1>6, <1>7, <1>8 DEF HandlerOK

\* A handler that answers leaves the others what they rely on.
LEMMA FinishHandlers ==
    ASSUME Handlers, NEW w \in Worker, Finish(w), requests' = requests,
           \A c \in Card : lock[c] # w => cards'[c] = cards[c],
           \A c \in Card : Holders(c) \subseteq Holders(c)'
    PROVE  Handlers'
<1>1. HandlersTyped'
  BY DEF Handlers, HandlersTyped, Finish, Step
<1>2. HandlerOK(w)'
  BY DEF Handlers, HandlersTyped, Finish, HandlerOK
<1>3. ASSUME NEW v \in Worker \ {w}
      PROVE  HandlerOK(v)'
  <2>1. v # None
    BY CardsAssumption
  <2>2. pc'[v] = pc[v] /\ job'[v] = job[v]
    BY DEF Handlers, HandlersTyped, Finish
  <2>3. \A c \in Card : lock[c] = v => lock'[c] = v
    BY DEF Finish
  <2>4. \A c \in Card : lock[c] = v /\ Exists(c) => cards'[c] = cards[c]
    BY <2>1
  <2> QED
    BY <2>2, <2>3, <2>4, OtherHandler DEF Handlers
<1> QED
  BY <1>1, <1>2, <1>3 DEF Handlers

\* What a handler whose cards are locked knows about them.
LEMMA LockedCards ==
    ASSUME Handlers, NEW w \in Worker, pc[w] \in {"locked", "checked"}
    PROVE  /\ job[w] \in Job
           /\ lock[job[w].card] = w /\ Exists(job[w].card)
           /\ job[w].op = "ASSIGN" => job[w].student \in Student
           /\ job[w].op = "REPLACE" =>
                 /\ job[w].new \in Card \ {job[w].card}
                 /\ lock[job[w].new] = w /\ Exists(job[w].new)
           /\ pc[w] = "checked" => job[w].op = "ASSIGN" /\ cards[job[w].card].status = "AVAILABLE"
<1>1. HandlerOK(w) /\ pc[w] # "idle"
  BY DEF Handlers
<1>2. job[w] \in Job /\ job[w].todo = {} /\ job[w].op # "SCAN"
  BY <1>1 DEF HandlerOK
<1>3. job[w].card \in Card /\ job[w].card # None /\ (job[w].new \in Card => job[w].new # None)
  BY <1>2, CardsAssumption DEF Job
<1>4. \A c \in {job[w].card, job[w].new} \ {None} : lock[c] = w /\ Exists(c)
  BY <1>1, <1>2 DEF HandlerOK
<1>5. /\ job[w].op = "ASSIGN" => job[w].student \in Student
      /\ job[w].op = "REPLACE" => job[w].new \in Card \ {job[w].card}
      /\ pc[w] = "checked" => job[w].op = "ASSIGN" /\ cards[job[w].card].status = "AVAILABLE"
  BY <1>1 DEF HandlerOK
<1> QED
  BY <1>2, <1>3, <1>4, <1>5

-----------------------------------------------------------------------------
(* The actions *)

\* Stocking a batch keeps the invariant.
LEMMA StockKeeps ==
    ASSUME Tables, Handlers, NEW batch \in SUBSET Card, Stock(batch)
    PROVE  Tables' /\ Handlers'
<1>1. \A c \in batch : cards[c].status \notin CardStatus
  BY NullRows DEF Stock
<1>2. \A i \in DOMAIN history : history[i] \in CardAssignment
  BY LenProperties, ElementOfSeq DEF Tables, TablesTyped
<1>3. \A c \in batch :
         /\ \A i \in DOMAIN history : history[i].card # c
         /\ \A e \in events : e.card # c
         /\ \A d \in Card : Exists(d) => cards[d].replaced_by # c
  <2> TAKE c \in batch
  <2>1. c # None
    BY CardsAssumption
  <2>2. ~Exists(c)
    BY <1>1 DEF Exists
  <2> QED
    BY <2>1, <2>2 DEF Tables, NothingStranded
<1>4. \A c \in batch : Holders(c) = {}
  BY <1>3 DEF Holders
<1>5. /\ \A c \in batch : cards'[c] = [status |-> "AVAILABLE", current_student |-> None, replaced_by |-> None]
      /\ \A c \in Card \ batch : cards'[c] = cards[c]
      /\ history' = history /\ events' = events
  BY DEF Stock
<1>6. cards' \in [Card -> StudentCard \cup {NotYet, Deleted}]
  <2>1. [status |-> "AVAILABLE", current_student |-> None, replaced_by |-> None] \in StudentCard
    BY DEF StudentCard, CardStatus
  <2> QED
    BY <2>1 DEF Stock, Tables, TablesTyped
<1>7. Tables' /\ \A d \in Card : Holders(d)' = Holders(d)
  BY <1>3, <1>4, <1>5, <1>6, StockTables
<1>8. ASSUME NEW v \in Worker
      PROVE  HandlerOK(v)'
  <2>1. pc'[v] = pc[v] /\ job'[v] = job[v] /\ \A c \in Card : lock[c] = v => lock'[c] = v
    BY DEF Stock
  <2>2. \A c \in Card : lock[c] = v /\ Exists(c) => cards'[c] = cards[c]
    BY <1>1, <1>5 DEF Exists
  <2> QED
    BY <1>7, <2>1, <2>2, OtherHandler DEF Handlers
<1> QED
  BY <1>7, <1>8 DEF Handlers, HandlersTyped, Stock

\* The holder shown on a card row has held the card.
LEMMA IdentifiedHolds ==
    ASSUME Tables, NEW c \in Card, Exists(c), Identified(cards[c]) # None
    PROVE  Identified(cards[c]) \in Holders(c)
<1>1. cards[c].status = "ASSIGNED" /\ Identified(cards[c]) = cards[c].current_student
  BY DEF Identified
<1>2. cards[c].current_student \in Student
  BY <1>1, ExistingCard DEF StudentCard, Tables
<1>3. PICK i \in DOMAIN history :
         history[i] = [card |-> c, student |-> cards[c].current_student, released |-> FALSE]
  BY <1>1, <1>2 DEF Tables, HistoryMatchesHolders, HeldBy
<1> QED
  BY <1>1, <1>3 DEF Holders

\* A new request keeps the invariant: nothing is locked for it yet.
LEMMA FetchKeeps ==
    ASSUME Tables, Handlers, NEW w \in Worker, NEW op \in Operation, NEW c \in Card,
           NEW new \in Card \cup {None}, NEW s \in Student \cup {None},
           op = "ASSIGN" => s \in Student,
           op = "REPLACE" => new \in Card \ {c},
           Fetch(w, Request(op, c, new, s))
    PROVE  Tables' /\ Handlers'
<1> DEFINE request == Request(op, c, new, s)
<1>1. /\ request.op = op /\ request.card = c /\ request.new = new /\ request.student = s
      /\ request.row = cards[c]
      /\ request.todo = IF op = "SCAN" THEN {} ELSE {c, new} \ {None}
  BY DEF Request
<1>2. Exists(c)
  BY <1>1 DEF Fetch
<1>3. cards[c] \in StudentCard
  BY <1>2, ExistingCard DEF Tables
<1>4. request \in Job
  <2>1. request.todo \subseteq Card
    BY <1>1
  <2> QED
    BY <1>1, <1>3, <2>1 DEF Request, Job
<1>5. Tables' /\ \A d \in Card : Holders(d)' = Holders(d)
  BY SameTables DEF Fetch
<1>6. PICK r : r = request
  OBVIOUS
<1> HIDE DEF request
<1>7. /\ pc' = [pc EXCEPT ![w] = "fetched"]
      /\ job' = [job EXCEPT ![w] = r]
      /\ requests' = requests + 1
      /\ lock' = lock /\ cards' = cards
  BY <1>6 DEF Fetch, request
<1>8. HandlersTyped'
  BY <1>4, <1>6, <1>7 DEF Handlers, HandlersTyped, Step
<1>9. HandlerOK(w)'
  <2>1. pc'[w] = "fetched" /\ job'[w] = r
    BY <1>7 DEF Handlers, HandlersTyped
  <2>2. Identified(r.row) # None => Identified(r.row) \in Holders(c)'
    BY <1>1, <1>2, <1>5, <1>6, IdentifiedHolds
  <2>3. Identified(job[w].row)' = Identified(r.row) /\ Holders(job[w].card)' = Holders(c)'
    BY <1>1, <1>6, <2>1 DEF Identified
  <2>4. r.op # "SCAN" => ({r.card, r.new} \ {None}) \ r.todo = {}
    BY <1>1, <1>6
  <2> QED
    BY <1>1, <1>4, <1>6, <2>1, <2>2, <2>3, <2>4 DEF HandlerOK
<1>10. ASSUME NEW v \in Worker \ {w}
       PROVE  HandlerOK(v)'
  <2>1. pc'[v] = pc[v] /\ job'[v] = job[v]
    BY <1>7 DEF Handlers, HandlersTyped
  <2> QED
    BY <1>5, <1>7, <2>1, OtherHandler DEF Handlers
<1> QED
  BY <1>5, <1>8, <1>9, <1>10 DEF Handlers

\* Taking a row lock keeps the invariant.
LEMMA LockCardKeeps ==
    ASSUME Tables, Handlers, NEW w \in Worker, LockCard(w)
    PROVE  Tables' /\ Handlers'
<1>1. HandlerOK(w) /\ pc[w] = "fetched" /\ job[w].todo # {}
  BY DEF Handlers, LockCard
<1>2. job[w] \in Job
  BY <1>1 DEF HandlerOK
<1>3. PICK c : c = NextRow(w)
  OBVIOUS
<1>4. /\ Exists(c) /\ lock[c] = None
      /\ lock' = [lock EXCEPT ![c] = w]
      /\ job' = [job EXCEPT ![w].todo = @ \ {c}]
      /\ pc' = [pc EXCEPT ![w] = IF job[w].todo = {c} THEN "locked" ELSE "fetched"]
      /\ cards' = cards /\ history' = history /\ events' = events /\ requests' = requests
  BY <1>3 DEF LockCard
<1>5. Tables' /\ \A d \in Card : Holders(d)' = Holders(d)
  BY <1>4, SameTables
<1>6. /\ job'[w] \in Job
      /\ job'[w].op = job[w].op /\ job'[w].card = job[w].card /\ job'[w].new = job[w].new
      /\ job'[w].student = job[w].student /\ job'[w].row = job[w].row
      /\ job'[w].todo = job[w].todo \ {c}
  BY <1>2, <1>4 DEF Job, Handlers, HandlersTyped
<1>7. HandlersTyped'
  <2>1. lock' \in [Card -> Worker \cup {None}]
    BY <1>4 DEF Handlers, HandlersTyped
  <2>2. pc' \in [Worker -> Step]
    BY <1>4 DEF Handlers, HandlersTyped, Step
  <2>3. job' \in [Worker -> Job \cup {NoJob}]
    BY <1>4, <1>6 DEF Handlers, HandlersTyped
  <2> QED
    BY <1>4, <2>1, <2>2, <2>3 DEF Handlers, HandlersTyped
<1>8. HandlerOK(w)'
  <2> DEFINE wanted == {job[w].card, job[w].new} \ {None}
  <2>1. pc'[w] = IF job[w].todo = {c} THEN "locked" ELSE "fetched"
    BY <1>4 DEF Handlers, HandlersTyped
  <2>2. /\ job[w].op = "ASSIGN" => job[w].student \in Student
        /\ job[w].op = "REPLACE" => job[w].new \in Card \ {job[w].card}
        /\ job[w].op # "SCAN" => \A d \in wanted \ job[w].todo : lock[d] = w /\ Exists(d)
        /\ Identified(job[w].row) # None => Identified(job[w].row) \in Holders(job[w].card)
    BY <1>1 DEF HandlerOK
  <2>3. job[w].card \in Card /\ wanted \subseteq Card
    BY <1>2 DEF Job
  <2>4. job[w].op # "SCAN"
    BY <1>1 DEF HandlerOK
  <2>5. \A d \in wanted \ (job[w].todo \ {c}) : lock'[d] = w /\ Exists(d)'
    BY <1>4, <2>2, <2>3, <2>4 DEF Exists, Handlers, HandlersTyped
  <2>6. pc'[w] = "locked" => job'[w].todo = {}
    BY <1>6, <2>1
  <2> QED
    BY <1>5, <1>6, <2>1, <2>2, <2>3, <2>4, <2>5, <2>6 DEF HandlerOK, Identified
<1>9. ASSUME NEW v \in Worker \ {w}
      PROVE  HandlerOK(v)'
  <2>1. pc'[v] = pc[v] /\ job'[v] = job[v]
    BY <1>4 DEF Handlers, HandlersTyped
  <2>2. v # None
    BY CardsAssumption
  <2>3. \A d \in Card : lock[d] = v => lock'[d] = v
    BY <1>4, <2>2 DEF Handlers, HandlersTyped
  <2> QED
    BY <1>4, <1>5, <2>1, <2>3, OtherHandler DEF Handlers
<1> QED
  BY <1>5, <1>7, <1>8, <1>9 DEF Handlers

\* A handler that answers without writing: refused, aborted, its card gone.
LEMMA FinishKeeps ==
    ASSUME Tables, Handlers, NEW w \in Worker, Finish(w),
           UNCHANGED <<cards, history, events, requests>>
    PROVE  Tables' /\ Handlers'
<1>1. Tables' /\ \A d \in Card : Holders(d)' = Holders(d)
  BY SameTables
<1>2. \A d \in Card : Holders(d) \subseteq Holders(d)'
  BY <1>1
<1> QED
  BY <1>1, <1>2, FinishHandlers

\* assign_card's checks keep the invariant.
LEMMA CheckStudentKeeps ==
    ASSUME Tables, Handlers, NEW w \in Worker, CheckStudent(w)
    PROVE  Tables' /\ Handlers'
<1>1. Tables' /\ \A d \in Card : Holders(d)' = Holders(d)
  BY SameTables DEF CheckStudent
<1>2. /\ pc[w] = "locked" /\ job[w].op = "ASSIGN" /\ cards[job[w].card].status = "AVAILABLE"
      /\ pc' = [pc EXCEPT ![w] = "checked"]
      /\ cards' = cards /\ lock' = lock /\ job' = job /\ requests' = requests
  BY DEF CheckStudent, CheckedCard
<1>3. HandlersTyped'
  BY <1>2 DEF Handlers, HandlersTyped, Step
<1>4. HandlerOK(w)'
  <2>1. pc'[w] = "checked" /\ HandlerOK(w) /\ job[w] \in Job /\ job[w].card \in Card
    BY <1>2 DEF Handlers, HandlersTyped, HandlerOK, Job
  <2>2. PICK c \in Card : c = job[w].card
    BY <2>1
  <2>3. Holders(job[w].card)' = Holders(c)' /\ Holders(c)' = Holders(job[w].card)
    BY <1>1, <1>2, <2>2
  <2> QED
    BY <1>2, <2>1, <2>3 DEF HandlerOK, Exists, Identified
<1>5. ASSUME NEW v \in Worker \ {w}
      PROVE  HandlerOK(v)'
  <2>1. pc'[v] = pc[v] /\ job'[v] = job[v]
    BY <1>2 DEF Handlers, HandlersTyped
  <2> QED
    BY <1>1, <1>2, <2>1, OtherHandler DEF Handlers
<1> QED
  BY <1>1, <1>3, <1>4, <1>5 DEF Handlers

\* Writing the assignment keeps the invariant.
LEMMA AssignCardKeeps ==
    ASSUME Tables, Handlers, NEW w \in Worker, AssignCard(w)
    PROVE  Tables' /\ Handlers'
<1>1. PICK c, s : c = job[w].card /\ s = job[w].student
  OBVIOUS
<1>2. /\ pc[w] = "checked"
      /\ IndexesAllow(c, s, None)
      /\ cards' = [cards EXCEPT ![c] = Saved(@, "ASSIGNED", s)]
      /\ history' = Opened(history, c, s)
      /\ Finish(w)
      /\ events' = events /\ requests' = requests
  BY <1>1 DEF AssignCard
<1>3. c \in Card /\ s \in Student /\ lock[c] = w /\ Exists(c) /\ cards[c].status = "AVAILABLE"
  BY <1>1, <1>2, LockedCards DEF Job
<1>4. c # None
  BY <1>3, CardsAssumption
<1>5. cards[c] \in StudentCard
  BY <1>3, ExistingCard DEF Tables
<1>6. Saved(cards[c], "ASSIGNED", s) \in StudentCard
  BY <1>3, <1>5 DEF Saved, StudentCard, CardStatus
<1>7. /\ cards' \in [Card -> StudentCard \cup {NotYet, Deleted}]
      /\ cards'[c] = Saved(cards[c], "ASSIGNED", s)
      /\ \A d \in Card \ {c} : cards'[d] = cards[d]
  BY <1>2, <1>3, <1>6 DEF Tables, TablesTyped
<1>8. history \in Seq(CardAssignment) /\ \A i \in DOMAIN history : history[i] \in CardAssignment
  BY LenProperties, ElementOfSeq DEF Tables, TablesTyped
<1>9. PICK n : n = Len(history) + 1
  OBVIOUS
<1>10. /\ history' \in Seq(CardAssignment)
       /\ DOMAIN history' = (DOMAIN history) \cup {n}
       /\ n \notin DOMAIN history
       /\ \A i \in DOMAIN history : history'[i] = history[i]
       /\ history'[n] = [card |-> c, student |-> s, released |-> FALSE]
  <2>1. /\ Opened(history, c, s) \in Seq(CardAssignment)
        /\ DOMAIN Opened(history, c, s) = (DOMAIN history) \cup {Len(history) + 1}
        /\ Len(history) + 1 \notin DOMAIN history
        /\ \A i \in DOMAIN history : Opened(history, c, s)[i] = history[i]
        /\ Opened(history, c, s)[Len(history) + 1] = [card |-> c, student |-> s, released |-> FALSE]
    BY <1>3, <1>8, OpenedRows
  <2> QED
    BY <1>2, <1>9, <2>1
<1>11. \A i \in DOMAIN history :
          /\ history'[i] \in CardAssignment
          /\ history'[i].card = history[i].card
          /\ history'[i].student = history[i].student
          /\ history'[i].released <=> history[i].released \/ history[i].card = None
  BY <1>8, <1>10, CardsAssumption DEF CardAssignment
<1>12. Tables' /\ \A d \in Card : Holders(d) \subseteq Holders(d)'
  BY <1>2, <1>3, <1>4, <1>7, <1>10, <1>11, TakeTables
<1>13. \A d \in Card : lock[d] # w => cards'[d] = cards[d]
  BY <1>3, <1>7
<1> QED
  BY <1>2, <1>12, <1>13, FinishHandlers

\* Losing or disabling a card keeps the invariant.
LEMMA RetireKeeps ==
    ASSUME Tables, Handlers, NEW w \in Worker, pc[w] = "locked",
           NEW status \in {"LOST", "DISABLED"}, Retire(w, status)
    PROVE  Tables' /\ Handlers'
<1>1. PICK c : c = job[w].card
  OBVIOUS
<1>2. /\ cards' = [cards EXCEPT ![c] = Saved(@, status, None)]
      /\ history' = Released(c)
      /\ Finish(w)
      /\ events' = events /\ requests' = requests
  BY <1>1 DEF Retire
<1>3. c \in Card /\ lock[c] = w /\ Exists(c)
  BY <1>1, LockedCards DEF Job
<1>4. Tables' /\ \A d \in Card : Holders(d)' = Holders(d)
  BY <1>2, <1>3, RetireTables
<1>5. \A d \in Card : lock[d] # w => cards'[d] = cards[d]
  BY <1>2, <1>3 DEF Tables, TablesTyped
<1>6. \A d \in Card : Holders(d) \subseteq Holders(d)'
  BY <1>4
<1> QED
  BY <1>2, <1>4, <1>5, <1>6, FinishHandlers

\* Deleting a card that nothing points at keeps the invariant.
LEMMA DeleteCardKeeps ==
    ASSUME Tables, Handlers, NEW w \in Worker, DeleteCard(w)
    PROVE  Tables' /\ Handlers'
<1>1. PICK c : c = job[w].card
  OBVIOUS
<1>2. /\ pc[w] = "locked"
      /\ NeverUsed(c)
      /\ cards' = [cards EXCEPT ![c] = Deleted]
      /\ Finish(w)
      /\ history' = history /\ events' = events /\ requests' = requests
  BY <1>1 DEF DeleteCard
<1>3. c \in Card /\ lock[c] = w
  BY <1>1, <1>2, LockedCards DEF Job
<1>4. Holders(c) = {}
  BY <1>2 DEF Holders, NeverUsed
<1>5. /\ cards' \in [Card -> StudentCard \cup {NotYet, Deleted}]
      /\ cards'[c] = Deleted
      /\ \A d \in Card \ {c} : cards'[d] = cards[d]
  BY <1>2, <1>3 DEF Tables, TablesTyped
<1>6. PICK changed \in SUBSET Card : changed = {c}
  BY <1>3
<1>7. \A d \in changed :
         /\ Holders(d) = {}
         /\ \A i \in DOMAIN history : history[i].card # d
         /\ \A e \in events : e.card # d
         /\ \A b \in Card : Exists(b) => cards[b].replaced_by # d
         /\ cards'[d] = Deleted
  BY <1>2, <1>4, <1>5, <1>6 DEF NeverUsed
<1>8. Tables' /\ \A d \in Card : Holders(d)' = Holders(d)
  BY <1>2, <1>5, <1>6, <1>7, StockTables
<1>9. \A d \in Card : Holders(d) \subseteq Holders(d)'
  BY <1>8
<1>10. \A d \in Card : lock[d] # w => cards'[d] = cards[d]
  BY <1>3, <1>5
<1> QED
  BY <1>2, <1>8, <1>9, <1>10, FinishHandlers

\* A replacement keeps the invariant.
LEMMA ReplaceCardKeeps ==
    ASSUME Tables, Handlers, NEW w \in Worker, NEW status \in {"REPLACED", "LOST", "DISABLED"},
           ReplaceCard(w, status)
    PROVE  Tables' /\ Handlers'
<1>1. PICK old, new, s : old = job[w].card /\ new = job[w].new /\ s = cards[job[w].card].current_student
  OBVIOUS
<1>2. /\ pc[w] = "locked" /\ job[w].op = "REPLACE"
      /\ cards[old].status = "ASSIGNED" /\ cards[new].status = "AVAILABLE"
      /\ IndexesAllow(new, s, old)
      /\ cards' = [cards EXCEPT
             ![old] = [status |-> status, current_student |-> None, replaced_by |-> new],
             ![new] = Saved(@, "ASSIGNED", s)]
      /\ history' = Opened(Released(old), new, s)
      /\ Finish(w)
      /\ events' = events /\ requests' = requests
  BY <1>1 DEF ReplaceCard, Replaceable, CheckedCard
<1>3. /\ old \in Card /\ new \in Card /\ old # new
      /\ lock[old] = w /\ lock[new] = w /\ Exists(old) /\ Exists(new)
  BY <1>1, <1>2, LockedCards DEF Job
<1>4. cards[old] \in StudentCard /\ cards[new] \in StudentCard
  BY <1>3, ExistingCard DEF Tables
<1>5. s \in Student
  BY <1>1, <1>2, <1>3, <1>4 DEF Tables, TablesTyped, StudentCard
<1>6. [status |-> status, current_student |-> None, replaced_by |-> new] \in StudentCard
  BY <1>3 DEF StudentCard, CardStatus
<1>7. Saved(cards[new], "ASSIGNED", s) \in StudentCard
  BY <1>4, <1>5 DEF Saved, StudentCard, CardStatus
<1>8. /\ cards' \in [Card -> StudentCard \cup {NotYet, Deleted}]
      /\ cards'[new] = Saved(cards[new], "ASSIGNED", s)
      /\ cards'[old] = [status |-> status, current_student |-> None, replaced_by |-> new]
      /\ \A d \in Card \ {new, old} : cards'[d] = cards[d]
  BY <1>2, <1>3, <1>6, <1>7 DEF Tables, TablesTyped
<1>9. history \in Seq(CardAssignment)
  BY DEF Tables, TablesTyped
<1>10. PICK rows \in Seq(CardAssignment) : rows = Released(old)
  BY <1>3, <1>9, ReleasedRows
<1>11. /\ DOMAIN rows = DOMAIN history
       /\ \A i \in DOMAIN history :
             /\ rows[i] \in CardAssignment
             /\ rows[i].card = history[i].card
             /\ rows[i].student = history[i].student
             /\ rows[i].released <=> history[i].released \/ history[i].card = old
  BY <1>3, <1>9, <1>10, ReleasedRows
<1>12. PICK n : n = Len(rows) + 1
  OBVIOUS
<1>13. /\ history' \in Seq(CardAssignment)
       /\ DOMAIN history' = (DOMAIN rows) \cup {n}
       /\ n \notin DOMAIN rows
       /\ \A i \in DOMAIN rows : history'[i] = rows[i]
       /\ history'[n] = [card |-> new, student |-> s, released |-> FALSE]
  <2>1. /\ Opened(rows, new, s) \in Seq(CardAssignment)
        /\ DOMAIN Opened(rows, new, s) = (DOMAIN rows) \cup {Len(rows) + 1}
        /\ Len(rows) + 1 \notin DOMAIN rows
        /\ \A i \in DOMAIN rows : Opened(rows, new, s)[i] = rows[i]
        /\ Opened(rows, new, s)[Len(rows) + 1] = [card |-> new, student |-> s, released |-> FALSE]
    BY <1>3, <1>5, OpenedRows, ZenonT(60)
  <2> QED
    BY <1>2, <1>10, <1>12, <2>1
<1>14. HeldBy(old, s)
  BY <1>1, <1>2 DEF HeldBy
<1>15. Tables' /\ \A d \in Card : Holders(d) \subseteq Holders(d)'
  <2>1. /\ DOMAIN history' = (DOMAIN history) \cup {n} /\ n \notin DOMAIN history
        /\ \A i \in DOMAIN history :
              /\ history'[i] \in CardAssignment
              /\ history'[i].card = history[i].card
              /\ history'[i].student = history[i].student
              /\ history'[i].released <=> history[i].released \/ history[i].card = old
    BY <1>11, <1>13
  <2>2. cards[new].status = "AVAILABLE" /\ IndexesAllow(new, s, old) /\ events' = events
    BY <1>2
  <2>3. /\ old \in Card \cup {None} /\ old # new /\ HeldBy(old, s)
        /\ new \in Card /\ s \in Student
    BY <1>3, <1>5, <1>14
  <2>4. history' \in Seq(CardAssignment) /\ history'[n] = [card |-> new, student |-> s, released |-> FALSE]
    BY <1>13
  <2>5. /\ cards'[old].status \in {"REPLACED", "LOST", "DISABLED"}
        /\ cards'[old].current_student = None
        /\ cards'[old].replaced_by = new
    BY <1>8
  <2>6. /\ cards' \in [Card -> StudentCard \cup {NotYet, Deleted}]
        /\ cards'[new] = Saved(cards[new], "ASSIGNED", s)
        /\ \A d \in Card \ {new, old} : cards'[d] = cards[d]
    BY <1>8
  <2> QED
    BY <2>1, <2>2, <2>3, <2>4, <2>5, <2>6, TakeTables
<1>16. \A d \in Card : lock[d] # w => cards'[d] = cards[d]
  BY <1>3, <1>8
<1> QED
  BY <1>2, <1>15, <1>16, FinishHandlers

\* Logging a scan keeps the invariant.
LEMMA LogScanKeeps ==
    ASSUME Tables, Handlers, NEW w \in Worker, LogScan(w)
    PROVE  Tables' /\ Handlers'
<1>1. PICK c, s : c = job[w].card /\ s = Identified(job[w].row)
  OBVIOUS
<1>2. /\ pc[w] = "fetched"
      /\ IF Exists(c) THEN events' = events \cup {[card |-> c, student |-> s]} ELSE events' = events
      /\ Finish(w)
      /\ cards' = cards /\ history' = history /\ requests' = requests
  BY <1>1 DEF LogScan
<1>3. HandlerOK(w)
  BY DEF Handlers
<1>4. job[w] \in Job /\ c \in Card /\ (s # None => s \in Holders(c))
  BY <1>1, <1>2, <1>3 DEF HandlerOK, Job
<1>5. s \in Student \cup {None}
  BY <1>1, <1>4 DEF Identified, Job, StudentCard
<1>6. Tables'
  BY <1>2, <1>4, <1>5, ScanTables, SameTables
<1>7. \A d \in Card : Holders(d) \subseteq Holders(d)'
  BY <1>2 DEF Holders
<1> QED
  BY <1>2, <1>6, <1>7, FinishHandlers

-----------------------------------------------------------------------------
(* The invariant *)

\* The empty inventory satisfies the invariant.
LEMMA InitCards == Init => CardsInv
<1> SUFFICES ASSUME Init
             PROVE  Tables /\ Handlers
  BY Halves
<1>1. /\ cards \in [Card -> StudentCard \cup {NotYet, Deleted}]
      /\ \A c \in Card : ~Exists(c)
  BY NullRows DEF Init, Exists
<1>2. history = <<>> /\ history \in Seq(CardAssignment) /\ DOMAIN history = {}
  BY DEF Init
<1>3. TablesTyped
  BY <1>1, <1>2 DEF TablesTyped, Init
<1>4. HistoryMatchesHolders
  <2>1. \A c \in Card, s \in Student : ~HeldBy(c, s)
    BY <1>1 DEF HeldBy, Exists, CardStatus
  <2> QED
    BY <1>2, <2>1 DEF HistoryMatchesHolders
<1>5. UsedCardsLeft /\ NeverRecycled /\ ReplacementKeepsStudent /\ NothingStranded /\ ScansNameHolders
  BY <1>1, <1>2 DEF UsedCardsLeft, NeverRecycled, ReplacementKeepsStudent, NothingStranded,
                    ScansNameHolders, Init
<1>6. Handlers
  BY CardsAssumption DEF Handlers, HandlersTyped, HandlerOK, Init, Step
<1> QED
  BY <1>3, <1>4, <1>5, <1>6 DEF Tables

\* Every step keeps the invariant.
LEMMA NextCards ==
    ASSUME CardsInv, [Next]_vars
    PROVE  CardsInv'
<1>1. Tables /\ Handlers
  BY Halves
<1> SUFFICES Tables' /\ Handlers'
  BY DEF CardsInv, Tables, Handlers, TablesTyped, HandlersTyped, TypeOK
<1>2. CASE UNCHANGED vars
  <2>1. Tables' /\ \A d \in Card : Holders(d)' = Holders(d)
    BY <1>1, <1>2, SameTables DEF vars
  <2>2. \A v \in Worker : HandlerOK(v)'
    BY <1>1, <1>2, <2>1, OtherHandler DEF vars, Handlers
  <2> QED
    BY <1>1, <1>2, <2>1, <2>2 DEF vars, Handlers, HandlersTyped
<1>3. ASSUME NEW batch \in SUBSET Card, Stock(batch)
      PROVE  Tables' /\ Handlers'
  BY <1>1, <1>3, StockKeeps
<1>4. ASSUME NEW w \in Worker, NEW c \in Card, NEW s \in Student, FetchAssign(w, c, s)
      PROVE  Tables' /\ Handlers'
  BY <1>1, <1>4, FetchKeeps DEF FetchAssign, Operation
<1>5. ASSUME NEW w \in Worker, NEW op \in Operation, NEW c \in Card, FetchCard(w, op, c)
      PROVE  Tables' /\ Handlers'
  BY <1>1, <1>5, FetchKeeps DEF FetchCard
<1>6. ASSUME NEW w \in Worker, NEW old \in Card, NEW new \in Card, FetchReplace(w, old, new)
      PROVE  Tables' /\ Handlers'
  BY <1>1, <1>6, FetchKeeps DEF FetchReplace, Operation
<1>7. ASSUME NEW w \in Worker, Serve(w)
      PROVE  Tables' /\ Handlers'
  <2>1. CASE LockCard(w)
    BY <1>1, <2>1, LockCardKeeps
  <2>2. CASE CardVanished(w)
    BY <1>1, <2>2, FinishKeeps DEF CardVanished
  <2>3. CASE CheckStudent(w)
    BY <1>1, <2>3, CheckStudentKeeps
  <2>4. CASE AssignCard(w)
    BY <1>1, <2>4, AssignCardKeeps
  <2>5. CASE MarkLost(w)
    BY <1>1, <2>5, RetireKeeps DEF MarkLost
  <2>6. CASE DisableCard(w)
    BY <1>1, <2>6, RetireKeeps DEF DisableCard
  <2>7. CASE DeleteCard(w)
    BY <1>1, <2>7, DeleteCardKeeps
  <2>8. ASSUME NEW status \in {"REPLACED", "LOST", "DISABLED"}, ReplaceCard(w, status)
        PROVE  Tables' /\ Handlers'
    BY <1>1, <2>8, ReplaceCardKeeps
  <2>9. CASE Refuse(w)
    BY <1>1, <2>9, FinishKeeps DEF Refuse
  <2>10. CASE LogScan(w)
    BY <1>1, <2>10, LogScanKeeps
  <2> QED
    BY <1>7, <2>1, <2>2, <2>3, <2>4, <2>5, <2>6, <2>7, <2>8, <2>9, <2>10 DEF Serve
<1>8. ASSUME NEW w \in Worker, Abort(w)
      PROVE  Tables' /\ Handlers'
  BY <1>1, <1>8, FinishKeeps DEF Abort
<1> QED
  BY <1>2, <1>3, <1>4, <1>5, <1>6, <1>7, <1>8 DEF Next

\* The inductive invariant holds in every reachable state.
THEOREM InvariantHolds == Spec => []CardsInv
<1>1. CardsInv /\ [Next]_vars => CardsInv'
  BY NextCards
<1> QED
  BY InitCards, <1>1, PTL DEF Spec

\* The tables, locks and handlers are typed, and a card has a holder exactly
\* while it is assigned: the check constraint of the table never fires.
THEOREM Typing == Spec => []TypeOK
<1>1. CardsInv => TypeOK
  BY DEF CardsInv
<1> QED
  BY InvariantHolds, <1>1, PTL

\* Holders and open history rows agree, and no student and no card has two:
\* the partial unique indexes and the locks together keep what assign_card's
\* unlocked look at the student cannot.
THEOREM HistoryAgrees == Spec => []HistoryMatchesHolders
<1>1. CardsInv => HistoryMatchesHolders
  BY DEF CardsInv
<1> QED
  BY InvariantHolds, <1>1, PTL

\* A card serves one student in its life, whatever the handlers saw before.
THEOREM OneStudentPerCard == Spec => []NeverRecycled
<1>1. CardsInv => NeverRecycled
  BY DEF CardsInv
<1> QED
  BY InvariantHolds, <1>1, PTL

\* replace_card hands the new card to the student of the old one.
THEOREM ReplacementSameStudent == Spec => []ReplacementKeepsStudent
<1>1. CardsInv => ReplacementKeepsStudent
  BY DEF CardsInv
<1> QED
  BY InvariantHolds, <1>1, PTL

\* delete_card leaves no dangling reference, scans in flight included.
THEOREM DeletionStrandsNothing == Spec => []NothingStranded
<1>1. CardsInv => NothingStranded
  BY DEF CardsInv
<1> QED
  BY InvariantHolds, <1>1, PTL

\* An event that names a student names one who held the card.
THEOREM EventsNameHolders == Spec => []ScansNameHolders
<1>1. CardsInv => ScansNameHolders
  BY DEF CardsInv
<1> QED
  BY InvariantHolds, <1>1, PTL

-----------------------------------------------------------------------------
(* The refinement *)

Hand == [s \in Student |-> {c \in Card : HeldBy(c, s)}]

Spent == {c \in Card : cards[c].status \notin {"NOT YET", "AVAILABLE"}}

HoldingStep == [Holding!Next]_<<Hand, Spent>>

\* A student holds one card at most.
LEMMA HeldOnce ==
    ASSUME Tables, NEW c \in Card, NEW d \in Card, NEW s \in Student, HeldBy(c, s), HeldBy(d, s)
    PROVE  c = d
<1>1. PICK i \in DOMAIN history : history[i] = [card |-> c, student |-> s, released |-> FALSE]
  BY DEF Tables, HistoryMatchesHolders
<1>2. PICK j \in DOMAIN history : history[j] = [card |-> d, student |-> s, released |-> FALSE]
  BY DEF Tables, HistoryMatchesHolders
<1>3. i = j
  BY <1>1, <1>2 DEF Tables, HistoryMatchesHolders
<1> QED
  BY <1>1, <1>2, <1>3

\* Cards that change nothing in anybody's hand and are as spent as before.
LEMMA StutterStep ==
    ASSUME \A c \in Card, s \in Student : HeldBy(c, s)' <=> HeldBy(c, s),
           \A c \in Card : cards'[c].status \in {"NOT YET", "AVAILABLE"}
                              <=> cards[c].status \in {"NOT YET", "AVAILABLE"}
    PROVE  HoldingStep
<1>1. Spent' = Spent
  BY DEF Spent
<1>2. \A s \in Student : {c \in Card : HeldBy(c, s)}' = {c \in Card : HeldBy(c, s)}
  OBVIOUS
<1>3. Hand' = Hand
  BY <1>2 DEF Hand
<1> QED
  BY <1>1, <1>3 DEF HoldingStep

\* A fresh card goes to a student, whose old card (if any) is given up.
LEMMA TakeStep ==
    ASSUME NEW c \in Card, cards[c].status = "AVAILABLE", NEW s \in Student,
           cards'[c].status = "ASSIGNED", cards'[c].current_student = s,
           \A d \in Card, t \in Student :
              HeldBy(d, t)' <=> (d = c /\ t = s) \/ (t # s /\ HeldBy(d, t)),
           \A d \in Card \ {c} : cards'[d].status \in {"NOT YET", "AVAILABLE"}
                                    <=> cards[d].status \in {"NOT YET", "AVAILABLE"}
    PROVE  HoldingStep
<1>1. c \notin Spent /\ Spent' = Spent \cup {c}
  BY DEF Spent
<1>2. Hand' = [Hand EXCEPT ![s] = {c}]
  <2>1. \A t \in Student \ {s} : {d \in Card : HeldBy(d, t)}' = {d \in Card : HeldBy(d, t)}
    OBVIOUS
  <2>2. {d \in Card : HeldBy(d, s)}' = {c}
    OBVIOUS
  <2> QED
    BY <2>1, <2>2 DEF Hand
<1>3. Holding!Give(s, c) \/ Holding!Swap(s, c)
  BY <1>1, <1>2 DEF Holding!Give, Holding!Swap, Holding!Fresh, Hand, Spent
<1> QED
  BY <1>3 DEF HoldingStep, Holding!Next

\* A card leaves service: its holder (if any) gives it up.
LEMMA LeaveStep ==
    ASSUME Tables, NEW c \in Card, Exists(c),
           cards'[c].status \in {"LOST", "DISABLED", "DELETED"},
           \A d \in Card \ {c} : cards'[d] = cards[d]
    PROVE  HoldingStep
<1>1. \A d \in Card, t \in Student : HeldBy(d, t)' <=> d # c /\ HeldBy(d, t)
  BY DEF HeldBy
<1>2. \A d \in Card \ {c} : cards'[d].status \in {"NOT YET", "AVAILABLE"}
                               <=> cards[d].status \in {"NOT YET", "AVAILABLE"}
  OBVIOUS
<1>3. CASE cards[c].status = "AVAILABLE"
  <2>1. c \notin Spent /\ Spent' = Spent \cup {c}
    BY <1>2, <1>3 DEF Spent
  <2>2. \A t \in Student : {d \in Card : HeldBy(d, t)}' = {d \in Card : HeldBy(d, t)}
    BY <1>1, <1>3 DEF HeldBy
  <2>3. Hand' = Hand
    BY <2>2 DEF Hand
  <2>4. Holding!Discard(c)
    BY <2>1, <2>3 DEF Holding!Discard, Holding!Fresh, Hand, Spent
  <2> QED
    BY <2>4 DEF HoldingStep, Holding!Next
<1>4. CASE cards[c].status = "ASSIGNED"
  <2>1. PICK s \in Student : HeldBy(c, s)
    BY <1>4, ExistingCard DEF Tables, TablesTyped, StudentCard, HeldBy
  <2>2. Spent' = Spent
    BY <1>2, <1>4 DEF Spent
  <2>3. \A t \in Student \ {s} : {d \in Card : HeldBy(d, t)}' = {d \in Card : HeldBy(d, t)}
    BY <1>1, <2>1 DEF HeldBy
  <2>4. \A d \in Card : ~HeldBy(d, s)'
    BY <1>1, <2>1, HeldOnce
  <2>5. Hand' = [Hand EXCEPT ![s] = {}] /\ Hand[s] # {}
    BY <2>1, <2>3, <2>4 DEF Hand
  <2>6. Holding!TakeBack(s)
    BY <2>2, <2>5 DEF Holding!TakeBack, Hand, Spent
  <2> QED
    BY <2>6 DEF HoldingStep, Holding!Next
<1>5. CASE cards[c].status \notin {"AVAILABLE", "ASSIGNED"}
  <2>1. \A d \in Card, t \in Student : HeldBy(d, t)' <=> HeldBy(d, t)
    BY <1>1, <1>5 DEF HeldBy
  <2>2. cards[c].status # "NOT YET"
    BY DEF Exists, CardStatus
  <2> QED
    BY <1>2, <1>5, <2>1, <2>2, StutterStep
<1> QED
  BY <1>3, <1>4, <1>5

\* A step that writes no card is a stutter of the inventory.
LEMMA SameCardsStep ==
    ASSUME cards' = cards
    PROVE  HoldingStep
<1>1. \A c \in Card, s \in Student : HeldBy(c, s)' <=> HeldBy(c, s)
  BY DEF HeldBy
<1> QED
  BY <1>1, StutterStep

\* assign_card gives a card to an empty hand.
LEMMA AssignStep ==
    ASSUME Tables, Handlers, NEW w \in Worker, AssignCard(w)
    PROVE  HoldingStep
<1>1. PICK c, s : c = job[w].card /\ s = job[w].student
  OBVIOUS
<1>2. /\ pc[w] = "checked"
      /\ IndexesAllow(c, s, None)
      /\ cards' = [cards EXCEPT ![c] = Saved(@, "ASSIGNED", s)]
  BY <1>1 DEF AssignCard
<1>3. c \in Card /\ s \in Student /\ cards[c].status = "AVAILABLE"
  BY <1>1, <1>2, LockedCards DEF Job
<1>4. /\ cards'[c].status = "ASSIGNED" /\ cards'[c].current_student = s
      /\ \A d \in Card \ {c} : cards'[d] = cards[d]
  BY <1>2, <1>3 DEF Saved, Tables, TablesTyped
<1>5. \A d \in Card : ~HeldBy(d, s)
  BY <1>2, CardsAssumption DEF IndexesAllow
<1>6. \A d \in Card, t \in Student : HeldBy(d, t)' <=> (d = c /\ t = s) \/ (t # s /\ HeldBy(d, t))
  BY <1>3, <1>4, <1>5 DEF HeldBy
<1> QED
  BY <1>3, <1>4, <1>6, TakeStep, ZenonT(60)

\* mark_lost and disable_card take a card back or discard it.
LEMMA RetireStep ==
    ASSUME Tables, Handlers, NEW w \in Worker, pc[w] = "locked",
           NEW status \in {"LOST", "DISABLED"}, Retire(w, status)
    PROVE  HoldingStep
<1>1. PICK c : c = job[w].card
  OBVIOUS
<1>2. c \in Card /\ Exists(c)
  BY <1>1, LockedCards DEF Job
<1>3. cards'[c].status = status /\ \A d \in Card \ {c} : cards'[d] = cards[d]
  BY <1>1, <1>2 DEF Retire, Saved, Tables, TablesTyped
<1> QED
  BY <1>2, <1>3, LeaveStep

\* delete_card discards a card, or removes one that was spent.
LEMMA DeleteStep ==
    ASSUME Tables, Handlers, NEW w \in Worker, DeleteCard(w)
    PROVE  HoldingStep
<1>1. PICK c : c = job[w].card
  OBVIOUS
<1>2. c \in Card /\ Exists(c)
  BY <1>1, LockedCards DEF Job, DeleteCard
<1>3. cards'[c].status = "DELETED" /\ \A d \in Card \ {c} : cards'[d] = cards[d]
  BY <1>1, <1>2 DEF DeleteCard, Deleted, Tables, TablesTyped
<1> QED
  BY <1>2, <1>3, LeaveStep

\* replace_card swaps the card of a hand.
LEMMA ReplaceStep ==
    ASSUME Tables, Handlers, NEW w \in Worker, NEW status \in {"REPLACED", "LOST", "DISABLED"},
           ReplaceCard(w, status)
    PROVE  HoldingStep
<1>1. PICK old, new, s : old = job[w].card /\ new = job[w].new /\ s = cards[job[w].card].current_student
  OBVIOUS
<1>2. /\ pc[w] = "locked" /\ job[w].op = "REPLACE"
      /\ cards[old].status = "ASSIGNED" /\ cards[new].status = "AVAILABLE"
      /\ IndexesAllow(new, s, old)
      /\ cards' = [cards EXCEPT
             ![old] = [status |-> status, current_student |-> None, replaced_by |-> new],
             ![new] = Saved(@, "ASSIGNED", s)]
  BY <1>1 DEF ReplaceCard, Replaceable, CheckedCard
<1>3. old \in Card /\ new \in Card /\ old # new /\ Exists(old)
  BY <1>1, <1>2, LockedCards DEF Job
<1>4. s \in Student
  BY <1>1, <1>2, <1>3, ExistingCard DEF Tables, TablesTyped, StudentCard
<1>5. /\ cards'[new].status = "ASSIGNED" /\ cards'[new].current_student = s
      /\ cards'[old].status = status
      /\ \A d \in Card \ {old, new} : cards'[d] = cards[d]
  BY <1>2, <1>3 DEF Saved, Tables, TablesTyped
<1>6. HeldBy(old, s) /\ \A d \in Card \ {old} : ~HeldBy(d, s)
  BY <1>1, <1>2 DEF HeldBy, IndexesAllow
<1>7. \A d \in Card, t \in Student : HeldBy(d, t)' <=> (d = new /\ t = s) \/ (t # s /\ HeldBy(d, t))
  <2> TAKE d \in Card, t \in Student
  <2>1. CASE d = new
    BY <1>2, <1>5, <2>1 DEF HeldBy
  <2>2. CASE d = old
    <3>1. ~HeldBy(old, t)' /\ (t # s => ~HeldBy(old, t))
      BY <1>5, <1>6 DEF HeldBy
    <3> QED
      BY <1>3, <2>2, <3>1
  <2>3. CASE d \notin {old, new}
    <3>1. HeldBy(d, t)' <=> HeldBy(d, t)
      BY <1>5, <2>3 DEF HeldBy
    <3> QED
      BY <1>6, <2>3, <3>1
  <2> QED
    BY <2>1, <2>2, <2>3
<1>8. \A d \in Card \ {new} : cards'[d].status \in {"NOT YET", "AVAILABLE"}
                                 <=> cards[d].status \in {"NOT YET", "AVAILABLE"}
  BY <1>2, <1>5
<1> QED
  BY <1>2, <1>3, <1>4, <1>5, <1>7, <1>8, TakeStep

\* Stocking makes fresh cards, which the inventory counts from the start.
LEMMA StockStep ==
    ASSUME Tables, NEW batch \in SUBSET Card, Stock(batch)
    PROVE  HoldingStep
<1>1. \A c \in batch : cards[c].status = "NOT YET" /\ cards'[c].status = "AVAILABLE"
  <2> TAKE c \in batch
  <2>1. cards[c] = NotYet
    BY DEF Stock
  <2>2. cards'[c] = [status |-> "AVAILABLE", current_student |-> None, replaced_by |-> None]
    BY DEF Stock
  <2>3. cards'[c].status = "AVAILABLE"
    BY <2>2
  <2>4. NotYet.status = "NOT YET"
    BY DEF NotYet
  <2>5. cards[c].status = "NOT YET"
    BY ONLY <2>1, <2>4
  <2> QED
    BY ONLY <2>3, <2>5
<1>2. \A c \in Card \ batch : cards'[c] = cards[c]
  BY DEF Stock
<1>3. \A c \in Card, s \in Student : HeldBy(c, s)' <=> HeldBy(c, s)
  BY <1>1, <1>2 DEF HeldBy
<1> QED
  BY <1>1, <1>2, <1>3, StutterStep

\* Every step is a step or a stutter of the inventory.
LEMMA NextStep ==
    ASSUME CardsInv, [Next]_vars
    PROVE  HoldingStep
<1>1. Tables /\ Handlers
  BY Halves
<1>2. CASE UNCHANGED vars
  BY <1>2, SameCardsStep DEF vars
<1>3. ASSUME NEW batch \in SUBSET Card, Stock(batch)
      PROVE  HoldingStep
  BY <1>1, <1>3, StockStep
<1>4. ASSUME NEW w \in Worker,
             \/ \E c \in Card, s \in Student : FetchAssign(w, c, s)
             \/ \E op \in Operation, c \in Card : FetchCard(w, op, c)
             \/ \E old, new \in Card : FetchReplace(w, old, new)
             \/ Abort(w)
      PROVE  HoldingStep
  BY <1>4, SameCardsStep DEF FetchAssign, FetchCard, FetchReplace, Fetch, Abort
<1>5. ASSUME NEW w \in Worker, Serve(w)
      PROVE  HoldingStep
  <2>1. CASE LockCard(w) \/ CardVanished(w) \/ CheckStudent(w) \/ Refuse(w) \/ LogScan(w)
    BY <2>1, SameCardsStep DEF LockCard, CardVanished, CheckStudent, Refuse, LogScan
  <2>2. CASE AssignCard(w)
    BY <1>1, <2>2, AssignStep
  <2>3. CASE MarkLost(w)
    BY <1>1, <2>3, RetireStep DEF MarkLost
  <2>4. CASE DisableCard(w)
    BY <1>1, <2>4, RetireStep DEF DisableCard
  <2>5. CASE DeleteCard(w)
    BY <1>1, <2>5, DeleteStep
  <2>6. ASSUME NEW status \in {"REPLACED", "LOST", "DISABLED"}, ReplaceCard(w, status)
        PROVE  HoldingStep
    BY <1>1, <2>6, ReplaceStep
  <2> QED
    BY <1>5, <2>1, <2>2, <2>3, <2>4, <2>5, <2>6 DEF Serve
<1> QED
  BY <1>2, <1>3, <1>4, <1>5 DEF Next

\* The concurrent services implement the inventory of CardHolding.
THEOREM CardsImplementHolding == Spec => ImplementsHolding
<1>1. Init => Holding!Init
  <2> SUFFICES ASSUME Init
               PROVE  Holding!Init
    OBVIOUS
  <2>1. \A c \in Card : cards[c].status = "NOT YET"
    BY DEF Init, NotYet
  <2>2. Spent = {} /\ \A c \in Card, s \in Student : ~HeldBy(c, s)
    BY <2>1 DEF Spent, HeldBy
  <2> QED
    BY <2>2 DEF Holding!Init, Spent
<1>2. CardsInv /\ [Next]_vars => [Holding!Next]_<<Hand, Spent>>
  BY NextStep DEF HoldingStep
<1> QED
  BY InvariantHolds, <1>1, <1>2, PTL DEF Spec, ImplementsHolding, Holding!Spec, Hand, Spent
=============================================================================
