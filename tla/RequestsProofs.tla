--------------------------- MODULE RequestsProofs ---------------------------
(***************************************************************************)
(* What the rows say of the contract, for every width of the integers,     *)
(* every set of numbers and any number of logs.                            *)
(*                                                                         *)
(* A row's id is the low bits of the number it was made for (Owned), so a  *)
(* plain number finds no row but its own.  While a log is handled the row  *)
(* of what it is about is one event behind (Current), and the log still    *)
(* says what the contract says (Pending).  No row ever goes (HasRows).     *)
(***************************************************************************)
EXTENDS Requests, TLAPS

Kinds == {"order", "match"}
Creations == {"OrderCreated", "MatchCreated"}
UpdateEvents == {"OrderUpdated", "MatchUpdated"}

Entry == [kind : Kinds, id : Nat, chain : Nat, origin : Nat,
          status : Status, pair : Nat \X Nat]
Row == [kind : Kinds, id : Int64s, chain : Int64s, origin : Int64s,
        state : Nat, match : Int64s, swapica : Nat, owner : Nat, writer : Nat]
Log == [event : Creations \cup UpdateEvents, id : Nat, chain : Nat,
        origin : Nat, status : Status]

LogKind == IF log.event \in {"OrderCreated", "OrderUpdated"} THEN "order"
                                                             ELSE "match"

(* The log that is handled is about c; c was just created.                 *)
About(c) == log # NoLog /\ LogKind = c.kind /\ log.id = c.id
Creating(c) == About(c) /\ log.event \in Creations

(* The types, with what makes an entry or a row the only one of its id.    *)
Types ==
    /\ contract \subseteq Entry
    /\ \A c, d \in contract : c.kind = d.kind /\ c.id = d.id => c = d
    /\ log \in Log \cup {NoLog}
    /\ emitted \in 0..MaxLogs
    /\ rows \subseteq Row
    /\ \A r, q \in rows : r.kind = q.kind /\ r.id = q.id => r = q

(* A row was made for an entry, and its id is what Int64 makes of its id.  *)
Owned ==
    \A r \in rows :
        /\ r.id = Int64(r.owner)
        /\ \E c \in contract : c.kind = r.kind /\ c.id = r.owner

(* The log says what its entry does, which has no row yet if it is new.    *)
Pending ==
    log # NoLog =>
        /\ \E c \in contract :
              /\ About(c)
              /\ c.chain = log.chain /\ c.origin = log.origin
              /\ c.status = log.status
              /\ Creating(c) => c.pair = <<0, 0>>
              /\ ~Creating(c) /\ c.kind = "order" /\ NamesMatch(log.status)
                    => c.pair = <<log.status.match, log.status.swapica>>
        /\ log.event \in Creations =>
              \A r \in rows : r.kind = LogKind => r.owner # log.id

(* The row r says what the entry c does, but for the log that is handled.  *)
SaysOf(r, c) ==
    /\ c.chain < Half => r.chain = c.chain
    /\ c.kind = "match" /\ c.origin < Half => r.origin = c.origin
    /\ ~About(c) => r.state = c.status.state

Current ==
    \A c \in contract : Plain(c) /\ ~Creating(c) =>
        \E r \in RowsAt(c.kind, c.id) : SaysOf(r, c)

RequestsInv == Types /\ Owned /\ OwnRow /\ Pending /\ Current

(* An order or match whose number an int64 holds has a row, its own or one *)
(* of a number that was cut to it, once its creation is handled.           *)
HasRows ==
    \A c \in contract : c.id \in 1..(Half - 1) /\ ~Creating(c) =>
        RowsAt(c.kind, c.id) # {}

(* The match and the contract of a row are those of the last event that    *)
(* named a match, but for the log that is handled, and for an id of zero.  *)
PairOf(r, c) ==
    /\ c.kind = "order"
    /\ ~About(c) \/ Creating(c) \/ ~NamesMatch(log.status)
    /\ Int64(c.pair[1]) = 0 => c.pair = <<0, 0>>
    => r.match = Int64(c.pair[1]) /\ r.swapica = c.pair[2]

CurrentPair ==
    \A c \in contract : \A r \in RowsAt(c.kind, c.id) : PairOf(r, c)

(* A row that has a match belongs to what its number says, not to one that *)
(* was cut to it: only an update of that number gave it the match.         *)
Named == \A r \in rows :
    r.match # 0 \/ r.swapica # 0 =>
        \E c \in contract : c.kind = r.kind /\ c.id = r.id /\ ~Creating(c)

PairInv == HasRows /\ CurrentPair /\ Named

(* An event that names a match names its contract.                         *)
MatchNamedWhole == \A s \in Statuses : s.match # 0 => s.swapica # 0

-----------------------------------------------------------------------------
(* The conversions.                                                        *)

LEMMA Widths == Half \in Nat \ {0} /\ Word \in Nat \ {0} /\ Word = Half + Half
BY RequestsAssumption DEF Word

LEMMA Modulo ==
    ASSUME NEW n \in Nat, NEW w \in Nat \ {0}
    PROVE  n % w \in 0..(w - 1) /\ (n < w => n % w = n)
OBVIOUS

LEMMA LowBits ==
    ASSUME NEW n \in Nat
    PROVE  n % Word \in 0..(Word - 1) /\ (n < Word => n % Word = n)
BY Modulo, Widths

LEMMA Int64Range == ASSUME NEW n \in Nat PROVE Int64(n) \in Int64s
<1>. DEFINE m == n % Word
<1>1. m \in 0..(Word - 1)
  BY LowBits
<1>2. Int64(n) = IF m < Half THEN m ELSE m - Word
  BY DEF Int64
<1>. HIDE DEF m
<1>. QED
  BY <1>1, <1>2, Widths DEF Int64s

(* A number that fits is kept.                                             *)
LEMMA Int64Keeps == ASSUME NEW n \in Nat, n < Half PROVE Int64(n) = n
<1>1. n % Word = n
  BY LowBits, Widths
<1>. QED
  BY <1>1 DEF Int64

(* What is cut to a number that fits has its low bits, and is that number  *)
(* or one beyond Word.                                                     *)
LEMMA Int64Cuts ==
    ASSUME NEW n \in Nat, NEW k \in 0..(Half - 1), Int64(n) = k
    PROVE  n % Word = k /\ (n = k \/ n >= Word)
<1>. DEFINE m == n % Word
<1>1. m \in 0..(Word - 1) /\ (n < Word => m = n)
  BY LowBits
<1>2. Int64(n) = IF m < Half THEN m ELSE m - Word
  BY DEF Int64
<1>. HIDE DEF m
<1>3. m = k
  BY <1>1, <1>2, Widths
<1>4. n = k \/ n >= Word
  BY <1>1, <1>3, Widths
<1>. QED
  BY <1>3, <1>4 DEF m

LEMMA ParseIntGives ==
    ASSUME NEW n \in Nat, NEW id \in ParseInt(n)
    PROVE  id = n /\ n \in 0..(Half - 1)
BY RequestsAssumption DEF ParseInt

-----------------------------------------------------------------------------
(* The contract emits a log.                                               *)

LEMMA LogIsNotNoLog == NoLog \notin Log
<1>1. NoLog.event = "none"
  BY DEF NoLog
<1>2. \A l \in Log : l.event \in Creations \cup UpdateEvents
  BY DEF Log
<1>. QED
  BY <1>1, <1>2 DEF Creations, UpdateEvents

LEMMA NumbersAreNat ==
    /\ \A n \in OrderNos \cup MatchNos \cup Chains \cup Origins : n \in Nat
    /\ \A s \in Statuses : s \in Status
    /\ \A s \in Status : s.state \in Nat /\ s.match \in Nat /\ s.swapica \in Nat
BY RequestsAssumption DEF Status

(* What Create and Update give to Emit: the new entry, and the one it      *)
(* takes the place of, if any.                                             *)
New(event, c) ==
    /\ event \in Creations /\ c.pair = <<0, 0>>
    /\ \A d \in contract : d.kind = c.kind => d.id # c.id
Newer(event, c, d) ==
    /\ event \in UpdateEvents
    /\ d \in contract /\ d.kind = c.kind /\ d.id = c.id
    /\ d.chain = c.chain /\ d.origin = c.origin
    /\ c.kind = "order" =>
          c.pair = IF NamesMatch(c.status)
                   THEN <<c.status.match, c.status.swapica>> ELSE d.pair
Emits(event, c) ==
    /\ c \in Entry
    /\ c.kind = IF event \in {"OrderCreated", "OrderUpdated"} THEN "order"
                                                              ELSE "match"
    /\ Emit(event, c)
    /\ New(event, c) \/ \E d \in contract : Newer(event, c, d)

LEMMA CreateEmits == Types /\ Create => \E event, c : Emits(event, c)
<1>. SUFFICES ASSUME Types, Create PROVE \E event, c : Emits(event, c)
  OBVIOUS
<1>1. PICK kind \in {"order", "match"}, chain \in Chains,
           id \in OrderNos \cup MatchNos, origin \in {0} \cup Origins :
        /\ \A c \in contract : c.kind = kind => c.id # id
        /\ Emit(IF kind = "order" THEN "OrderCreated" ELSE "MatchCreated",
                [kind |-> kind, id |-> id, chain |-> chain, origin |-> origin,
                 status |-> [Nobody EXCEPT !.state = 1], pair |-> <<0, 0>>])
  BY DEF Create
<1>. DEFINE event == IF kind = "order" THEN "OrderCreated" ELSE "MatchCreated"
            c == [kind |-> kind, id |-> id, chain |-> chain, origin |-> origin,
                  status |-> [Nobody EXCEPT !.state = 1], pair |-> <<0, 0>>]
<1>2. [Nobody EXCEPT !.state = 1] \in Status
  BY DEF Nobody, Status
<1>3. c \in Entry
  BY <1>2, NumbersAreNat DEF Entry, Kinds
<1>4. c.kind = kind /\ c.id = id /\ c.pair = <<0, 0>>
  OBVIOUS
<1>5. event \in Creations
      /\ kind = IF event \in {"OrderCreated", "OrderUpdated"} THEN "order"
                                                              ELSE "match"
  BY DEF Creations
<1>6. Emit(event, c)
  BY <1>1
<1>. HIDE DEF event, c
<1>7. Emits(event, c)
  BY <1>1, <1>3, <1>4, <1>5, <1>6 DEF Emits, New
<1>. QED
  BY <1>7

LEMMA UpdateEmits == Types /\ Update => \E event, c : Emits(event, c)
<1>. SUFFICES ASSUME Types, Update PROVE \E event, c : Emits(event, c)
  OBVIOUS
<1>1. PICK d \in contract, s \in Statuses :
        IF d.kind = "order"
        THEN Emit("OrderUpdated",
                  [d EXCEPT !.status = s,
                            !.pair = IF NamesMatch(s)
                                     THEN <<s.match, s.swapica>> ELSE d.pair])
        ELSE Emit("MatchUpdated", [d EXCEPT !.status.state = s.state])
  BY DEF Update
<1>2. /\ d \in Entry /\ s \in Status
      /\ s.state \in Nat /\ s.match \in Nat /\ s.swapica \in Nat
  BY NumbersAreNat DEF Types
<1>3. CASE d.kind = "order"
  <2>. DEFINE pair == IF NamesMatch(s) THEN <<s.match, s.swapica>> ELSE d.pair
              c == [d EXCEPT !.status = s, !.pair = pair]
  <2>1. pair \in Nat \X Nat
    BY <1>2 DEF Entry
  <2>2. Emit("OrderUpdated", c)
    BY <1>1, <1>3
  <2>3. /\ c \in Entry /\ c.kind = d.kind /\ c.id = d.id /\ c.chain = d.chain
        /\ c.origin = d.origin /\ c.status = s /\ c.pair = pair
    BY <1>2, <2>1 DEF Entry
  <2>4. c.pair = IF NamesMatch(c.status)
                 THEN <<c.status.match, c.status.swapica>> ELSE d.pair
    BY <2>3
  <2>. HIDE DEF c, pair
  <2>5. Emits("OrderUpdated", c)
    BY <1>3, <2>2, <2>3, <2>4 DEF Emits, Newer, UpdateEvents
  <2>. QED
    BY <2>5
<1>4. CASE d.kind # "order"
  <2>. DEFINE c == [d EXCEPT !.status.state = s.state]
  <2>1. Emit("MatchUpdated", c)
    BY <1>1, <1>4
  <2>2. /\ c \in Entry /\ c.kind = d.kind /\ c.id = d.id /\ c.chain = d.chain
        /\ c.origin = d.origin
    BY <1>2 DEF Entry, Status
  <2>3. d.kind = "match"
    BY <1>2, <1>4 DEF Entry, Kinds
  <2>. HIDE DEF c
  <2>4. Emits("MatchUpdated", c)
    BY <2>1, <2>2, <2>3 DEF Emits, Newer, UpdateEvents
  <2>. QED
    BY <2>4
<1>. QED
  BY <1>3, <1>4

(* What Emit leaves of the contract and puts into it.                      *)
LEMMA EmitFacts ==
    ASSUME Types, NEW event, NEW c, Emits(event, c)
    PROVE  /\ log = NoLog /\ rows' = rows /\ log' \in Log /\ log' # NoLog
           /\ log'.event = event /\ log'.id = c.id /\ log'.chain = c.chain
           /\ log'.origin = c.origin /\ log'.status = c.status /\ LogKind' = c.kind
           /\ emitted' \in 0..MaxLogs
           /\ contract' \subseteq Entry /\ c \in contract'
           /\ \A d \in contract' :
                 \/ d = c
                 \/ d \in contract /\ (d.kind # c.kind \/ d.id # c.id)
           /\ \A d \in contract :
                 \E e \in contract' : e.kind = d.kind /\ e.id = d.id
<1>1. /\ log = NoLog /\ rows' = rows /\ c \in Entry
      /\ emitted < MaxLogs /\ emitted' = emitted + 1
      /\ log' = [event |-> event, id |-> c.id, chain |-> c.chain,
                 origin |-> c.origin, status |-> c.status]
      /\ contract' = {d \in contract : d.kind # c.kind \/ d.id # c.id} \cup {c}
  BY DEF Emits, Emit
<1>2. event \in Creations \cup UpdateEvents
  BY DEF Emits, New, Newer
<1>3. /\ log' \in Log /\ log'.event = event /\ log'.id = c.id
      /\ log'.chain = c.chain /\ log'.origin = c.origin
      /\ log'.status = c.status
  BY <1>1, <1>2 DEF Log, Entry
<1>4. log' # NoLog
  BY <1>3, LogIsNotNoLog
<1>5. LogKind' = c.kind
  BY <1>3 DEF LogKind, Emits
<1>6. emitted' \in 0..MaxLogs
  BY <1>1, RequestsAssumption DEF Types
<1>7. contract' \subseteq Entry /\ c \in contract'
  BY <1>1 DEF Types
<1>8. \A d \in contract' : \/ d = c
                           \/ d \in contract /\ (d.kind # c.kind \/ d.id # c.id)
  BY <1>1
<1>9. \A d \in contract : \E e \in contract' : e.kind = d.kind /\ e.id = d.id
  BY <1>1
<1>. QED
  BY <1>1, <1>3, <1>4, <1>5, <1>6, <1>7, <1>8, <1>9

(* A number that no other takes the row of was one before, too.            *)
LEMMA PlainBefore ==
    ASSUME Types, NEW event, NEW c, Emits(event, c),
           NEW d, NEW e, d.kind = e.kind, d.id = e.id, Plain(d)'
    PROVE  Plain(e)
<1>1. /\ d.id \in 1..(Half - 1)
      /\ \A x \in contract' : x.kind = d.kind /\ x.id % Word = d.id => x.id = d.id
  BY DEF Plain
<1>2. \A x \in contract : x.kind = d.kind /\ x.id % Word = d.id => x.id = d.id
  <2>. SUFFICES ASSUME NEW x \in contract, x.kind = d.kind, x.id % Word = d.id
                PROVE  x.id = d.id
    OBVIOUS
  <2>1. PICK y \in contract' : y.kind = x.kind /\ y.id = x.id
    BY EmitFacts
  <2>. QED
    BY <1>1, <2>1
<1>. QED
  BY <1>1, <1>2 DEF Plain

LEMMA EmitKeepsTypes ==
    ASSUME Types, NEW event, NEW c, Emits(event, c) PROVE Types'
<1>1. \A d, e \in contract' : d.kind = e.kind /\ d.id = e.id => d = e
  BY EmitFacts DEF Types
<1>2. rows' = rows /\ log' \in Log \cup {NoLog}
  BY EmitFacts
<1>. QED
  BY <1>1, <1>2, EmitFacts DEF Types

LEMMA EmitKeepsOwned ==
    ASSUME Types, Owned, NEW event, NEW c, Emits(event, c)
    PROVE  Owned'
<1>. SUFFICES ASSUME NEW r \in rows
              PROVE  /\ r.id = Int64(r.owner)
                     /\ \E d \in contract' : d.kind = r.kind /\ d.id = r.owner
  BY EmitFacts DEF Owned
<1>1. r.id = Int64(r.owner)
  BY DEF Owned
<1>2. PICK d \in contract : d.kind = r.kind /\ d.id = r.owner
  BY DEF Owned
<1>. QED
  BY <1>1, <1>2, EmitFacts

LEMMA EmitGivesPending ==
    ASSUME Types, Owned, NEW event, NEW c, Emits(event, c)
    PROVE  Pending'
<1>1. About(c)' /\ (Creating(c)' <=> event \in Creations)
  BY EmitFacts DEF About, Creating
<1>2. event \in Creations => c.pair = <<0, 0>>
  BY DEF Emits, New, Newer, Creations, UpdateEvents
<1>3. /\ event \notin Creations /\ c.kind = "order" /\ NamesMatch(c.status)
      => c.pair = <<c.status.match, c.status.swapica>>
  BY DEF Emits, New, Newer
<1>4. ASSUME event \in Creations, NEW r \in rows, r.kind = c.kind
      PROVE  r.owner # c.id
  <2>1. \A d \in contract : d.kind = c.kind => d.id # c.id
    BY <1>4 DEF Emits, New, Newer, Creations, UpdateEvents
  <2>2. \E d \in contract : d.kind = r.kind /\ d.id = r.owner
    BY DEF Owned
  <2>. QED
    BY <1>4, <2>1, <2>2
<1>5. \E d \in contract' :
         /\ About(d)' /\ d.chain = log'.chain /\ d.origin = log'.origin
         /\ d.status = log'.status
         /\ Creating(d)' => d.pair = <<0, 0>>
         /\ ~Creating(d)' /\ d.kind = "order" /\ NamesMatch(log'.status)
               => d.pair = <<log'.status.match, log'.status.swapica>>
  BY <1>1, <1>2, <1>3, EmitFacts
<1>6. log'.event \in Creations =>
         \A r \in rows' : r.kind = LogKind' => r.owner # log'.id
  BY <1>4, EmitFacts
<1>. QED
  BY <1>5, <1>6 DEF Pending

LEMMA EmitKeepsCurrent ==
    ASSUME Types, Current, NEW event, NEW c, Emits(event, c)
    PROVE  Current'
<1>. SUFFICES ASSUME NEW d \in contract', Plain(d)', ~Creating(d)'
              PROVE  \E r \in RowsAt(d.kind, d.id) : SaysOf(r, d)'
  BY EmitFacts DEF Current, RowsAt
<1>0. \A e : ~About(e) /\ ~Creating(e)
  BY EmitFacts DEF About, Creating
<1>1. CASE d = c
  <2>1. About(d)' /\ event \notin Creations
    BY <1>1, EmitFacts DEF About, Creating
  <2>2. PICK e \in contract : Newer(event, c, e)
    BY <2>1 DEF Emits, New
  <2>3. e.kind = d.kind /\ e.id = d.id /\ e.chain = d.chain
        /\ e.origin = d.origin /\ Plain(e)
    BY <1>1, <2>2, PlainBefore DEF Newer
  <2>4. PICK r \in RowsAt(e.kind, e.id) : SaysOf(r, e)
    BY <1>0, <2>3 DEF Current
  <2>. QED
    BY <2>1, <2>3, <2>4 DEF SaysOf
<1>2. CASE d \in contract
  <2>1. PICK r \in RowsAt(d.kind, d.id) : SaysOf(r, d)
    BY <1>0, <1>2, PlainBefore DEF Current
  <2>. QED
    BY <1>0, <2>1 DEF SaysOf
<1>. QED
  BY <1>1, <1>2, EmitFacts

LEMMA EmitKeepsPair ==
    ASSUME Types, CurrentPair, Named, NEW event, NEW c, Emits(event, c)
    PROVE  CurrentPair' /\ Named'
<1>0. \A e : ~About(e) /\ ~Creating(e)
  BY EmitFacts DEF About, Creating
<1>1. ASSUME NEW d \in contract', NEW r \in RowsAt(d.kind, d.id)
      PROVE  PairOf(r, d)'
  <2>1. CASE New(event, c) /\ d = c
    <3>1. d.pair = <<0, 0>> /\ \A e \in contract : e.kind = d.kind => e.id # d.id
      BY <2>1 DEF New
    <3>2. r.match = 0 /\ r.swapica = 0
      BY <3>1 DEF Named, RowsAt
    <3>3. Int64(0) = 0
      BY Int64Keeps, Widths
    <3>. QED
      BY <3>1, <3>2, <3>3 DEF PairOf
  <2>2. CASE ~New(event, c) /\ d = c
    <3>1. PICK e \in contract : Newer(event, c, e)
      BY <2>2 DEF Emits
    <3>2. e.kind = d.kind /\ e.id = d.id /\ PairOf(r, e)
      BY <2>2, <3>1 DEF Newer, CurrentPair
    <3>3. About(d)' /\ ~Creating(d)' /\ log'.status = d.status
      BY <2>2, <3>1, EmitFacts DEF About, Creating, Newer, Creations, UpdateEvents
    <3>4. d.kind = "order" /\ ~NamesMatch(d.status) => d.pair = e.pair
      BY <2>2, <3>1 DEF Newer
    <3>. QED
      BY <1>0, <3>2, <3>3, <3>4 DEF PairOf
  <2>3. CASE d # c
    <3>1. d \in contract /\ ~About(d)'
      BY <2>3, EmitFacts DEF About
    <3>. QED
      BY <1>0, <3>1 DEF PairOf, CurrentPair
  <2>. QED
    BY <2>1, <2>2, <2>3
<1>2. ASSUME NEW r \in rows, r.match # 0 \/ r.swapica # 0
      PROVE  \E d \in contract' : d.kind = r.kind /\ d.id = r.id /\ ~Creating(d)'
  <2>1. PICK e \in contract : e.kind = r.kind /\ e.id = r.id
    BY <1>2 DEF Named
  <2>2. PICK d \in contract' : d.kind = e.kind /\ d.id = e.id
    BY EmitFacts
  <2>3. ~Creating(d)'
    <3>1. Creating(d)' => event \in Creations /\ c.kind = d.kind /\ c.id = d.id
      BY EmitFacts DEF Creating, About
    <3>2. event \in Creations => New(event, c)
      BY DEF Emits, Newer, Creations, UpdateEvents
    <3>. QED
      BY <2>2, <3>1, <3>2 DEF New
  <2>. QED
    BY <2>1, <2>2, <2>3
<1>. QED
  BY <1>1, <1>2, EmitFacts DEF CurrentPair, Named, RowsAt

-----------------------------------------------------------------------------
(* An entry and its row are created.                                       *)

AddBody(body) ==
    /\ log \in Log /\ log # NoLog /\ log.event \in Creations
    /\ body \in Row /\ body.kind = LogKind /\ body.id = Int64(log.id)
    /\ body.chain = Int64(log.chain) /\ body.state = log.status.state
    /\ LogKind = "match" => body.origin = Int64(log.origin)
    /\ LogKind = "order" => body.origin = 0
    /\ body.match = 0 /\ body.swapica = 0
    /\ body.owner = log.id /\ body.writer = log.id

LEMMA CreatedAdds ==
    ASSUME Types, HandleOrderCreated \/ HandleMatchCreated
    PROVE  \E body : AddBody(body) /\ Created(LogKind, body)
<1>1. log.event \in Creations /\ log # NoLog /\ log \in Log
  <2>1. log.event \in {"OrderCreated", "MatchCreated"}
    BY DEF HandleOrderCreated, HandleMatchCreated
  <2>2. log # NoLog
    BY <2>1 DEF NoLog
  <2>. QED
    BY <2>1, <2>2 DEF Types, Creations
<1>2. /\ log.id \in Nat /\ log.chain \in Nat /\ log.origin \in Nat
      /\ log.status.state \in Nat
      /\ Int64(log.id) \in Int64s /\ Int64(log.chain) \in Int64s
      /\ Int64(log.origin) \in Int64s
      /\ 0 \in Int64s
  BY <1>1, Int64Range, Widths DEF Log, Status, Int64s
<1>3. CASE HandleOrderCreated
  <2>. DEFINE body == NewAddOrder(log)
  <2>1. LogKind = "order"
    BY <1>3 DEF HandleOrderCreated, LogKind
  <2>2. body \in Row
    BY <1>2 DEF NewAddOrder, Row, Kinds
  <2>3. AddBody(body)
    BY <1>1, <2>1, <2>2 DEF NewAddOrder, AddBody
  <2>4. Created(LogKind, body)
    BY <1>3, <2>1 DEF HandleOrderCreated
  <2>. QED
    BY <2>3, <2>4
<1>4. CASE HandleMatchCreated
  <2>. DEFINE body == NewAddMatch(log)
  <2>1. LogKind = "match"
    BY <1>4 DEF HandleMatchCreated, LogKind
  <2>2. body \in Row
    BY <1>2 DEF NewAddMatch, Row, Kinds
  <2>3. AddBody(body)
    BY <1>1, <2>1, <2>2 DEF NewAddMatch, AddBody
  <2>4. Created(LogKind, body)
    BY <1>4, <2>1 DEF HandleMatchCreated
  <2>. QED
    BY <2>3, <2>4
<1>. QED
  BY <1>3, <1>4

LEMMA CreatedFacts ==
    ASSUME NEW body, AddBody(body), Created(LogKind, body)
    PROVE  /\ contract' = contract /\ emitted' = emitted /\ log' = NoLog
           /\ rows \subseteq rows'
           /\ \A r \in rows' :
                 \/ r \in rows
                 \/ /\ r = body /\ r.id # 0
                    /\ \A q \in rows : q.kind = r.kind => q.id # r.id
           /\ \A d : ~About(d)' /\ ~Creating(d)'
<1>1. contract' = contract /\ emitted' = emitted /\ log' = NoLog
  BY DEF Created
<1>2. CASE RowsAt(LogKind, body.id) # {} \/ Exists(LogKind, body.id)
  BY <1>1, <1>2 DEF Created, About, Creating
<1>3. CASE RowsAt(LogKind, body.id) = {}
  <2>1. \A q \in rows : q.kind = body.kind => q.id # body.id
    BY <1>3 DEF RowsAt, AddBody
  <2>2. rows' = rows \/ (rows' = rows \cup {body} /\ body.id # 0)
    BY DEF Created, Exists
  <2>. QED
    BY <1>1, <2>1, <2>2 DEF About, Creating
<1>. QED
  BY <1>2, <1>3

(* The entry that is created, if its number is plain, has no row before    *)
(* and this one after.                                                     *)
LEMMA CreatedRow ==
    ASSUME Types, Owned, Pending,
           NEW body, AddBody(body), Created(LogKind, body),
           NEW d \in contract, Plain(d), About(d)
    PROVE  /\ rows' = rows \cup {body}
           /\ body.kind = d.kind /\ body.id = d.id
           /\ \A r \in rows : r.kind = d.kind => r.id # d.id
           /\ body.state = d.status.state
           /\ d.chain < Half => body.chain = d.chain
           /\ d.kind = "match" /\ d.origin < Half => body.origin = d.origin
<1>1. d.id \in 1..(Half - 1) /\ d.id \in 0..(Half - 1) /\ d.id \in Nat /\ d.id < Half
  BY Widths DEF Plain
<1>2. body.kind = d.kind /\ body.id = d.id /\ log.id = d.id
  BY <1>1, Int64Keeps DEF AddBody, About
<1>3. PICK x \in contract : /\ About(x) /\ x.status = log.status
                            /\ x.chain = log.chain /\ x.origin = log.origin
  BY DEF Pending, About
<1>4. x = d
  BY <1>3 DEF About, Types
<1>5. /\ d.chain = log.chain /\ d.origin = log.origin /\ d.status = log.status
      /\ LogKind = d.kind
  BY <1>3, <1>4 DEF About
<1>6. ASSUME NEW r \in rows, r.kind = d.kind, r.id = d.id
      PROVE  FALSE
  <2>1. PICK e \in contract : e.kind = r.kind /\ e.id = r.owner
    BY DEF Owned
  <2>2. r.owner \in Nat /\ Int64(r.owner) = d.id
    BY <1>6 DEF Types, Row, Owned
  <2>3. r.owner % Word = d.id
    BY <1>1, <2>2, Int64Cuts
  <2>4. r.owner = d.id
    BY <1>6, <2>1, <2>3 DEF Plain
  <2>. QED
    BY <1>2, <1>6, <2>4 DEF Pending, About, AddBody
<1>7. RowsAt(LogKind, body.id) = {} /\ ~Exists(LogKind, body.id)
  <2>1. body.id # 0
    BY <1>1, <1>2
  <2>. QED
    BY <1>2, <1>6, <2>1 DEF RowsAt, Exists, About
<1>8. rows' = rows \cup {body}
  BY <1>7 DEF Created
<1>9. /\ d.chain < Half => body.chain = d.chain
      /\ d.kind = "match" /\ d.origin < Half => body.origin = d.origin
  <2>1. d.chain \in Nat /\ d.origin \in Nat
    BY DEF Types, Entry
  <2>. QED
    BY <1>5, <2>1, Int64Keeps DEF AddBody
<1>. QED
  BY <1>2, <1>5, <1>6, <1>8, <1>9 DEF AddBody

LEMMA CreatedKeeps ==
    ASSUME RequestsInv, NEW body, AddBody(body), Created(LogKind, body)
    PROVE  RequestsInv'
<1>. USE DEF RequestsInv
<1>1. Types'
  <2>1. rows' \subseteq Row
    BY CreatedFacts DEF Types, AddBody
  <2>2. \A r, q \in rows' : r.kind = q.kind /\ r.id = q.id => r = q
    BY CreatedFacts DEF Types
  <2>. QED
    BY <2>1, <2>2, CreatedFacts DEF Types
<1>2. Owned'
  <2>1. \E c \in contract : c.kind = LogKind /\ c.id = log.id
    BY DEF Pending, About, AddBody
  <2>. SUFFICES ASSUME NEW r \in rows'
                PROVE  /\ r.id = Int64(r.owner)
                       /\ \E c \in contract : c.kind = r.kind /\ c.id = r.owner
    BY CreatedFacts DEF Owned
  <2>2. CASE r \in rows
    BY <2>2 DEF Owned
  <2>3. CASE r = body
    BY <2>1, <2>3 DEF AddBody
  <2>. QED
    BY <2>2, <2>3, CreatedFacts
<1>3. OwnRow'
  BY CreatedFacts DEF OwnRow, AddBody
<1>4. Pending'
  BY CreatedFacts DEF Pending
<1>5. Current'
  <2>. SUFFICES ASSUME NEW d \in contract, Plain(d)
                PROVE  \E r \in rows' : /\ r.kind = d.kind /\ r.id = d.id
                                        /\ SaysOf(r, d)'
    BY CreatedFacts DEF Current, RowsAt, Plain
  <2>1. CASE About(d)
    BY <2>1, CreatedRow, CreatedFacts DEF SaysOf
  <2>2. CASE ~About(d)
    <3>1. PICK r \in RowsAt(d.kind, d.id) : SaysOf(r, d)
      BY <2>2 DEF Current, Creating
    <3>2. r \in rows' /\ r.kind = d.kind /\ r.id = d.id
      BY <3>1, CreatedFacts DEF RowsAt
    <3>3. SaysOf(r, d)'
      BY <2>2, <3>1, CreatedFacts DEF SaysOf
    <3>. QED
      BY <3>2, <3>3
  <2>. QED
    BY <2>1, <2>2
<1>. QED
  BY <1>1, <1>2, <1>3, <1>4, <1>5

LEMMA CreatedKeepsPair ==
    ASSUME RequestsInv, PairInv, NEW body, AddBody(body), Created(LogKind, body)
    PROVE  CurrentPair' /\ Named'
<1>. USE DEF RequestsInv, PairInv
<1>1. ASSUME NEW d \in contract, NEW r \in rows', r.kind = d.kind, r.id = d.id
      PROVE  PairOf(r, d)'
  <2>1. CASE r \in rows
    <3>1. PairOf(r, d)
      BY <1>1, <2>1 DEF CurrentPair, RowsAt
    <3>2. About(d) => Creating(d)
      BY DEF Creating, AddBody
    <3>. QED
      BY <3>1, <3>2 DEF PairOf
  <2>2. CASE r \notin rows
    <3>1. /\ r = body /\ r.id # 0 /\ r.match = 0 /\ r.swapica = 0
          /\ \A q \in rows : q.kind = r.kind => q.id # r.id
          /\ r.id = Int64(log.id) /\ r.kind = LogKind
      BY <1>1, <2>2, CreatedFacts DEF AddBody
    <3>2. Creating(d)
      <4>1. d.id \in Nat /\ r.id \in -Half..(Half - 1)
        BY <1>1, <3>1 DEF Types, Entry, AddBody, Row, Int64s
      <4>2. d.id \in 1..(Half - 1)
        BY <1>1, <3>1, <4>1, Widths
      <4>. QED
        BY <1>1, <3>1, <4>2 DEF HasRows, RowsAt
    <3>3. PICK x \in contract : About(x) /\ (Creating(x) => x.pair = <<0, 0>>)
      BY DEF Pending, AddBody
    <3>4. x = d
      BY <3>2, <3>3 DEF Creating, About, Types
    <3>5. d.pair = <<0, 0>> /\ Int64(0) = 0
      BY <3>2, <3>3, <3>4, Int64Keeps, Widths
    <3>. QED
      BY <3>1, <3>5 DEF PairOf
  <2>. QED
    BY <2>1, <2>2
<1>2. ASSUME NEW r \in rows', r.match # 0 \/ r.swapica # 0
      PROVE  \E c \in contract : /\ c.kind = r.kind /\ c.id = r.id
                                 /\ ~Creating(c)'
  <2>1. r \in rows
    BY <1>2, CreatedFacts DEF AddBody
  <2>. QED
    BY <1>2, <2>1, CreatedFacts DEF Named
<1>. QED
  BY <1>1, <1>2, CreatedFacts DEF CurrentPair, Named, RowsAt

-----------------------------------------------------------------------------
(* A row is updated.                                                       *)

Patched(old, new) ==
    /\ log \in Log /\ log # NoLog /\ log.event \in UpdateEvents
    /\ log.id \in 0..(Half - 1)
    /\ old \in rows /\ old.kind = LogKind /\ old.id = log.id
    /\ new \in Row /\ new.kind = old.kind /\ new.id = old.id
    /\ new.chain = old.chain /\ new.origin = old.origin
    /\ new.owner = old.owner
    /\ new.state = log.status.state /\ new.writer = log.id
    /\ LogKind = "order" =>
          /\ new.match = IF Int64(log.status.match) = 0 THEN old.match
                         ELSE Int64(log.status.match)
          /\ new.swapica = IF log.status.swapica = 0 THEN old.swapica
                           ELSE log.status.swapica
    /\ rows' = (rows \ {old}) \cup {new}
    /\ log' = NoLog /\ contract' = contract /\ emitted' = emitted

LEMMA UpdatedPatches ==
    ASSUME Types, HandleOrderUpdated \/ HandleMatchUpdated
    PROVE  \E old, new : Patched(old, new)
<1>1. log.event \in UpdateEvents /\ log # NoLog /\ log \in Log
  <2>1. log.event \in {"OrderUpdated", "MatchUpdated"}
    BY DEF HandleOrderUpdated, HandleMatchUpdated
  <2>2. log # NoLog
    BY <2>1 DEF NoLog
  <2>. QED
    BY <2>1, <2>2 DEF Types, UpdateEvents
<1>2. /\ log.id \in Nat /\ log.status.state \in Nat /\ log.status.match \in Nat
      /\ log.status.swapica \in Nat
      /\ Int64(log.status.match) \in Int64s
  BY <1>1, Int64Range DEF Log, Status
<1>3. CASE HandleOrderUpdated
  <2>1. LogKind = "order" /\ Updated("order")
    BY <1>3 DEF HandleOrderUpdated, LogKind
  <2>2. PICK old \in Reached("order") :
              rows' = (rows \ {old}) \cup {NewUpdateOrder(old, log)}
    BY <2>1 DEF Updated
  <2>3. PICK id \in ParseInt(log.id) : old \in RowsAt("order", id)
    BY DEF Reached
  <2>4. id = log.id /\ log.id \in 0..(Half - 1)
    BY <1>2, ParseIntGives
  <2>5. old \in rows /\ old.kind = "order" /\ old.id = log.id /\ old \in Row
    BY <2>3, <2>4 DEF RowsAt, Types
  <2>. DEFINE match == IF Int64(log.status.match) = 0 THEN old.match
                       ELSE Int64(log.status.match)
              swapica == IF log.status.swapica = 0 THEN old.swapica
                         ELSE log.status.swapica
              new == [old EXCEPT !.state = log.status.state, !.match = match,
                                 !.swapica = swapica, !.writer = log.id]
  <2>6. match \in Int64s /\ swapica \in Nat
    BY <1>2, <2>5 DEF Row
  <2>7. NewUpdateOrder(old, log) = new
    BY <2>5 DEF NewUpdateOrder, Row
  <2>. HIDE DEF match, swapica
  <2>8. /\ new \in Row /\ new.kind = old.kind /\ new.id = old.id
        /\ new.chain = old.chain /\ new.origin = old.origin
        /\ new.owner = old.owner
        /\ new.state = log.status.state /\ new.writer = log.id
        /\ new.match = match /\ new.swapica = swapica
    BY <1>2, <2>5, <2>6 DEF Row
  <2>9. rows' = (rows \ {old}) \cup {new}
    BY <2>2, <2>7
  <2>. HIDE DEF new
  <2>10. log' = NoLog /\ contract' = contract /\ emitted' = emitted
    BY <2>1 DEF Updated
  <2>11. Patched(old, new)
    BY <1>1, <2>1, <2>4, <2>5, <2>8, <2>9, <2>10 DEF Patched, match, swapica
  <2>. QED
    BY <2>11
<1>4. CASE HandleMatchUpdated
  <2>1. LogKind = "match" /\ Updated("match")
    BY <1>4 DEF HandleMatchUpdated, LogKind
  <2>2. PICK old \in Reached("match") :
              rows' = (rows \ {old}) \cup {NewUpdateMatch(old, log)}
    BY <2>1 DEF Updated
  <2>3. PICK id \in ParseInt(log.id) : old \in RowsAt("match", id)
    BY DEF Reached
  <2>4. id = log.id /\ log.id \in 0..(Half - 1)
    BY <1>2, ParseIntGives
  <2>5. old \in rows /\ old.kind = "match" /\ old.id = log.id /\ old \in Row
    BY <2>3, <2>4 DEF RowsAt, Types
  <2>. DEFINE new == [old EXCEPT !.state = log.status.state, !.writer = log.id]
  <2>6. /\ new \in Row /\ new.kind = old.kind /\ new.id = old.id
        /\ new.chain = old.chain /\ new.origin = old.origin
        /\ new.owner = old.owner
        /\ new.state = log.status.state /\ new.writer = log.id
    BY <1>2, <2>5 DEF Row
  <2>7. rows' = (rows \ {old}) \cup {new}
    BY <2>2 DEF NewUpdateMatch
  <2>. HIDE DEF new
  <2>8. log' = NoLog /\ contract' = contract /\ emitted' = emitted
    BY <2>1 DEF Updated
  <2>9. Patched(old, new)
    BY <1>1, <2>1, <2>4, <2>5, <2>6, <2>7, <2>8 DEF Patched
  <2>. QED
    BY <2>9
<1>. QED
  BY <1>3, <1>4

(* The entry whose row is updated has the log's status, and its row is the *)
(* updated one; the rows of others stay.                                   *)
LEMMA PatchedFacts ==
    ASSUME RequestsInv, NEW old, NEW new, Patched(old, new)
    PROVE  /\ \A d : ~About(d)' /\ ~Creating(d)' /\ ~Creating(d)
           /\ \A d \in contract : About(d) =>
                 /\ d.status = log.status /\ d.kind = old.kind /\ d.id = old.id
                 /\ d.kind = "order" /\ NamesMatch(log.status) =>
                       d.pair = <<log.status.match, log.status.swapica>>
           /\ \A r \in rows : r.kind = old.kind /\ r.id = old.id => r = old
           /\ \A r \in rows' : (r \in rows /\ r # old) \/ r = new
           /\ \A d : (About(d) <=> d.kind = old.kind /\ d.id = old.id)
<1>1. \A d : ~About(d)' /\ ~Creating(d)' /\ ~Creating(d)
  BY DEF Patched, About, Creating, Creations, UpdateEvents
<1>2. \A d : (About(d) <=> d.kind = old.kind /\ d.id = old.id)
  BY DEF Patched, About
<1>3. PICK x \in contract :
         /\ About(x) /\ x.status = log.status
         /\ ~Creating(x) /\ x.kind = "order" /\ NamesMatch(log.status)
               => x.pair = <<log.status.match, log.status.swapica>>
  BY DEF RequestsInv, Pending, Patched
<1>4. \A d \in contract : About(d) => d = x
  BY <1>2, <1>3 DEF RequestsInv, Types
<1>5. \A r \in rows : r.kind = old.kind /\ r.id = old.id => r = old
  BY DEF RequestsInv, Types, Patched
<1>6. \A r \in rows' : (r \in rows /\ r # old) \/ r = new
  BY DEF Patched
<1>. QED
  BY <1>1, <1>2, <1>3, <1>4, <1>5, <1>6

LEMMA PatchedKeeps ==
    ASSUME RequestsInv, NEW old, NEW new, Patched(old, new)
    PROVE  RequestsInv'
<1>. USE DEF RequestsInv
<1>1. Types'
  <2>1. rows' \subseteq Row
    BY DEF Types, Patched
  <2>2. \A r, q \in rows' : r.kind = q.kind /\ r.id = q.id => r = q
    BY PatchedFacts DEF Types, Patched
  <2>3. log' \in Log \cup {NoLog} /\ contract' = contract /\ emitted' = emitted
    BY DEF Patched
  <2>. QED
    BY <2>1, <2>2, <2>3 DEF Types
<1>2. Owned'
  <2>1. \A r \in rows' : \E q \in rows : /\ q.id = r.id /\ q.kind = r.kind
                                         /\ q.owner = r.owner
    BY PatchedFacts DEF Patched
  <2>2. contract' = contract
    BY DEF Patched
  <2>. QED
    BY <2>1, <2>2 DEF Owned
<1>3. OwnRow'
  <2>1. new.owner \in Nat /\ Int64(new.owner) = log.id
    BY DEF Patched, Row, Owned
  <2>2. log.id \in 0..(Half - 1) /\ new.writer = log.id
    BY DEF Patched
  <2>3. new.owner = new.writer \/ new.owner >= Word
    BY <2>1, <2>2, Int64Cuts
  <2>. QED
    BY <2>3, PatchedFacts DEF OwnRow
<1>4. Pending'
  BY DEF Pending, Patched
<1>5. Current'
  <2>. SUFFICES ASSUME NEW d \in contract, Plain(d)
                PROVE  \E r \in rows' : /\ r.kind = d.kind /\ r.id = d.id
                                        /\ SaysOf(r, d)'
    BY DEF Current, RowsAt, Plain, Patched
  <2>1. PICK r \in RowsAt(d.kind, d.id) : SaysOf(r, d)
    BY PatchedFacts DEF Current
  <2>2. CASE About(d)
    <3>1. r = old
      BY <2>1, <2>2, PatchedFacts DEF RowsAt
    <3>2. new \in rows' /\ new.kind = d.kind /\ new.id = d.id
      BY <2>2, PatchedFacts DEF Patched
    <3>3. SaysOf(new, d)'
      BY <2>1, <2>2, <3>1, PatchedFacts DEF SaysOf, Patched
    <3>. QED
      BY <3>2, <3>3
  <2>3. CASE ~About(d)
    <3>1. r \in rows' /\ r.kind = d.kind /\ r.id = d.id
      BY <2>1, <2>3, PatchedFacts DEF RowsAt, Patched
    <3>2. SaysOf(r, d)'
      BY <2>1, <2>3 DEF SaysOf
    <3>. QED
      BY <3>1, <3>2
  <2>. QED
    BY <2>2, <2>3
<1>. QED
  BY <1>1, <1>2, <1>3, <1>4, <1>5

(* An order's log carries a status the contract may emit.                  *)
FromStatuses ==
    log # NoLog /\ log.event = "OrderUpdated" => log.status \in Statuses

LEMMA PatchedKeepsPair ==
    ASSUME MatchNamedWhole, RequestsInv, CurrentPair, Named, FromStatuses,
           NEW old, NEW new, Patched(old, new)
    PROVE  CurrentPair' /\ Named'
<1>. USE DEF RequestsInv
<1>1. ASSUME NEW d \in contract, d.kind = "order",
             NEW r \in rows', r.kind = d.kind, r.id = d.id,
             Int64(d.pair[1]) = 0 => d.pair = <<0, 0>>
      PROVE  r.match = Int64(d.pair[1]) /\ r.swapica = d.pair[2]
  <2>1. CASE About(d)
    <3>1. r = new /\ LogKind = "order"
      BY <1>1, <2>1, PatchedFacts DEF Patched
    <3>2. log.event = "OrderUpdated" /\ log # NoLog
      BY <3>1 DEF Patched, LogKind, UpdateEvents
    <3>3. log.status.match # 0 => log.status.swapica # 0
      BY <3>2 DEF FromStatuses, MatchNamedWhole
    <3>4. Int64(0) = 0
      BY Int64Keeps, Widths
    <3>5. CASE ~NamesMatch(log.status)
      <4>1. PairOf(old, d)
        BY <2>1, PatchedFacts DEF CurrentPair, RowsAt, Patched
      <4>2. old.match = Int64(d.pair[1]) /\ old.swapica = d.pair[2]
        BY <1>1, <3>5, <4>1 DEF PairOf
      <4>. QED
        BY <3>1, <3>4, <3>5, <4>2 DEF Patched, NamesMatch
    <3>6. CASE NamesMatch(log.status)
      <4>1. d.pair = <<log.status.match, log.status.swapica>>
        BY <1>1, <2>1, <3>6, PatchedFacts
      <4>2. Int64(log.status.match) # 0 /\ log.status.match # 0
        BY <1>1, <3>4, <3>6, <4>1 DEF NamesMatch
      <4>. QED
        BY <3>1, <3>3, <4>1, <4>2 DEF Patched
    <3>. QED
      BY <3>5, <3>6
  <2>2. CASE ~About(d)
    <3>1. r \in rows
      BY <1>1, <2>2, PatchedFacts DEF Patched
    <3>2. PairOf(r, d)
      BY <1>1, <3>1 DEF CurrentPair, RowsAt
    <3>. QED
      BY <1>1, <2>2, <3>2 DEF PairOf
  <2>. QED
    BY <2>1, <2>2
<1>2. ASSUME NEW r \in rows', r.match # 0 \/ r.swapica # 0
      PROVE  \E c \in contract : /\ c.kind = r.kind /\ c.id = r.id
                                 /\ ~Creating(c)'
  <2>1. CASE r \in rows
    BY <1>2, <2>1, PatchedFacts DEF Named
  <2>2. CASE r = new
    <3>1. PICK c \in contract : About(c)
      BY DEF Pending, Patched
    <3>. QED
      BY <2>2, <3>1, PatchedFacts DEF Patched
  <2>. QED
    BY <2>1, <2>2, PatchedFacts
<1>3. contract' = contract
  BY DEF Patched
<1>. QED
  BY <1>1, <1>2, <1>3 DEF CurrentPair, Named, RowsAt, PairOf

-----------------------------------------------------------------------------
(* The theorems.                                                           *)

LEMMA InitRequestsInv == Init => RequestsInv /\ PairInv /\ FromStatuses
BY RequestsAssumption
   DEF Init, RequestsInv, Types, Owned, OwnRow, Pending, Current, PairInv,
       HasRows, CurrentPair, Named, RowsAt, FromStatuses

LEMMA StutterKeeps ==
    ASSUME UNCHANGED vars
    PROVE  /\ RequestsInv => RequestsInv'
           /\ PairInv => PairInv'
           /\ FromStatuses => FromStatuses'
<1>. contract' = contract /\ log' = log /\ emitted' = emitted /\ rows' = rows
  BY DEF vars
<1>1. RequestsInv => RequestsInv'
  BY DEF RequestsInv, Types, Owned, OwnRow, Pending, Current, RowsAt, SaysOf,
         About, Creating, LogKind, Plain
<1>2. PairInv => PairInv'
  BY DEF PairInv, HasRows, CurrentPair, Named, RowsAt, PairOf, About, Creating,
         LogKind
<1>3. FromStatuses => FromStatuses'
  BY DEF FromStatuses
<1>. QED
  BY <1>1, <1>2, <1>3

(* A step is a stutter, an event, a creation or an update.                 *)
LEMMA StepsOfNext ==
    ASSUME Types, [Next]_vars
    PROVE  \/ UNCHANGED vars
           \/ \E event, c : Emits(event, c)
           \/ \E body : AddBody(body) /\ Created(LogKind, body)
           \/ \E old, new : Patched(old, new)
BY CreateEmits, UpdateEmits, CreatedAdds, UpdatedPatches DEF Next

LEMMA RequestsInvStep == RequestsInv /\ [Next]_vars => RequestsInv'
<1>. SUFFICES ASSUME RequestsInv, [Next]_vars PROVE RequestsInv'
  OBVIOUS
<1>0. Types /\ Owned /\ OwnRow /\ Pending /\ Current
  BY DEF RequestsInv
<1>1. CASE UNCHANGED vars
  BY <1>1, StutterKeeps
<1>2. ASSUME NEW event, NEW c, Emits(event, c) PROVE RequestsInv'
  <2>1. OwnRow'
    BY <1>0, <1>2, EmitFacts DEF OwnRow
  <2>2. Types' /\ Owned' /\ Pending' /\ Current'
    BY <1>0, <1>2, EmitKeepsTypes, EmitKeepsOwned, EmitGivesPending,
       EmitKeepsCurrent
  <2>. QED
    BY <2>1, <2>2 DEF RequestsInv
<1>3. ASSUME NEW body, AddBody(body), Created(LogKind, body) PROVE RequestsInv'
  BY <1>3, CreatedKeeps
<1>4. ASSUME NEW old, NEW new, Patched(old, new) PROVE RequestsInv'
  BY <1>4, PatchedKeeps
<1>. QED
  BY <1>0, <1>1, <1>2, <1>3, <1>4, StepsOfNext

LEMMA FromStatusesStep == FromStatuses /\ [Next]_vars => FromStatuses'
<1>. SUFFICES ASSUME FromStatuses, [Next]_vars PROVE FromStatuses'
  OBVIOUS
<1>1. CASE UNCHANGED vars
  BY <1>1, StutterKeeps
<1>2. CASE Create
  <2>1. log'.event # "OrderUpdated"
    BY <1>2 DEF Create, Emit
  <2>. QED
    BY <2>1 DEF FromStatuses
<1>3. CASE Update
  <2>1. PICK c \in contract, s \in Statuses :
          IF c.kind = "order"
          THEN Emit("OrderUpdated",
                    [c EXCEPT !.status = s,
                              !.pair = IF NamesMatch(s)
                                       THEN <<s.match, s.swapica>> ELSE c.pair])
          ELSE Emit("MatchUpdated", [c EXCEPT !.status.state = s.state])
    BY <1>3 DEF Update
  <2>. QED
    BY <2>1 DEF Emit, FromStatuses
<1>4. CASE HandleOrderCreated \/ HandleMatchCreated
  BY <1>4 DEF HandleOrderCreated, HandleMatchCreated, Created, FromStatuses
<1>5. CASE HandleOrderUpdated \/ HandleMatchUpdated
  BY <1>5 DEF HandleOrderUpdated, HandleMatchUpdated, Updated, FromStatuses
<1>. QED
  BY <1>1, <1>2, <1>3, <1>4, <1>5 DEF Next

(* Every update finds a row.                                               *)
LEMMA HasRowsStep == RequestsInv /\ HasRows /\ [Next]_vars => HasRows'
<1>. SUFFICES ASSUME RequestsInv, HasRows, [Next]_vars PROVE HasRows'
  OBVIOUS
<1>0. Types
  BY DEF RequestsInv
<1>1. CASE UNCHANGED vars
  BY <1>1 DEF vars, HasRows, RowsAt, Creating, About, LogKind
<1>. SUFFICES ASSUME NEW d \in contract', d.id \in 1..(Half - 1), ~Creating(d)',
                     ~UNCHANGED vars
              PROVE  \E r \in rows' : r.kind = d.kind /\ r.id = d.id
  BY <1>1 DEF HasRows, RowsAt
<1>2. ASSUME NEW event, NEW c, Emits(event, c)
      PROVE  \E r \in rows' : r.kind = d.kind /\ r.id = d.id
  <2>1. rows' = rows /\ \A e : ~Creating(e)
    BY <1>0, <1>2, EmitFacts DEF Creating, About
  <2>2. PICK e \in contract : e.kind = d.kind /\ e.id = d.id
    <3>1. CASE d = c
      <4>1. event \notin Creations
        BY <1>0, <1>2, <3>1, EmitFacts DEF Creating, About
      <4>2. PICK e \in contract : Newer(event, c, e)
        BY <1>2, <4>1 DEF Emits, New
      <4>. QED
        BY <3>1, <4>2 DEF Newer
    <3>2. CASE d # c
      BY <1>0, <1>2, <3>2, EmitFacts
    <3>. QED
      BY <3>1, <3>2
  <2>. QED
    BY <2>1, <2>2 DEF HasRows, RowsAt
<1>3. ASSUME NEW body, AddBody(body), Created(LogKind, body)
      PROVE  \E r \in rows' : r.kind = d.kind /\ r.id = d.id
  <2>0. d \in contract /\ rows \subseteq rows'
    BY <1>3, CreatedFacts
  <2>1. CASE About(d)
    <3>1. body.kind = d.kind /\ body.id = d.id /\ d.id # 0
      <4>1. d.id \in Nat /\ d.id < Half
        BY Widths
      <4>2. Int64(d.id) = d.id
        BY <4>1, Int64Keeps
      <4>. QED
        BY <1>3, <2>1, <4>1, <4>2 DEF AddBody, About
    <3>2. LogKind = d.kind
      BY <2>1 DEF About
    <3>. QED
      BY <1>3, <3>1, <3>2 DEF Created, Exists, RowsAt
  <2>2. CASE ~About(d)
    BY <2>0, <2>2 DEF HasRows, RowsAt, Creating
  <2>. QED
    BY <2>1, <2>2
<1>4. ASSUME NEW old, NEW new, Patched(old, new)
      PROVE  \E r \in rows' : r.kind = d.kind /\ r.id = d.id
  <2>1. d \in contract /\ ~Creating(d)
    BY <1>4, PatchedFacts DEF Patched
  <2>2. PICK r \in rows : r.kind = d.kind /\ r.id = d.id
    BY <2>1 DEF HasRows, RowsAt
  <2>. QED
    BY <1>4, <2>2 DEF Patched
<1>. QED
  BY <1>0, <1>2, <1>3, <1>4, StepsOfNext

LEMMA PairInvStep ==
    ASSUME MatchNamedWhole
    PROVE  RequestsInv /\ FromStatuses /\ PairInv /\ [Next]_vars => PairInv'
<1>. SUFFICES ASSUME RequestsInv, FromStatuses, PairInv, [Next]_vars
              PROVE  PairInv'
  OBVIOUS
<1>0. Types /\ HasRows /\ CurrentPair /\ Named
  BY DEF RequestsInv, PairInv
<1>1. CASE UNCHANGED vars
  BY <1>1, StutterKeeps
<1>2. HasRows'
  BY <1>0, HasRowsStep
<1>3. ASSUME NEW event, NEW c, Emits(event, c) PROVE CurrentPair' /\ Named'
  BY <1>0, <1>3, EmitKeepsPair
<1>4. ASSUME NEW body, AddBody(body), Created(LogKind, body)
      PROVE  CurrentPair' /\ Named'
  BY <1>4, CreatedKeepsPair
<1>5. ASSUME NEW old, NEW new, Patched(old, new) PROVE CurrentPair' /\ Named'
  BY <1>0, <1>5, PatchedKeepsPair
<1>. QED
  BY <1>0, <1>1, <1>2, <1>3, <1>4, <1>5, StepsOfNext DEF PairInv

LEMMA RequestsInvHolds == Spec => []RequestsInv
BY InitRequestsInv, RequestsInvStep, PTL DEF Spec

(* The numbers of the bodies and rows are int64s (Int64Range), and the     *)
(* collector has one row for a kind and an id.                             *)
THEOREM RequestsTypeCorrect == Spec => []TypeOK
<1>1. RequestsInv => TypeOK
  BY DEF RequestsInv, Types, TypeOK, Entry, Row, Kinds
<1>. QED
  BY <1>1, RequestsInvHolds, PTL

(* handleOrderUpdated and handleMatchUpdated parse the topic and refuse    *)
(* what does not fit, so an update is never written to the row of another  *)
(* number, unless that row was made for a number cut short (Int64Cuts).    *)
THEOREM RowsKeepOwner == Spec => []OwnRow
BY RequestsInvHolds, PTL DEF RequestsInv

(* Between logs, the row of an order or match with a plain number is there *)
(* and has the state and the chain the contract has.                       *)
THEOREM RowsSayContract == Spec => []RowFaithful
<1>1. RequestsInv => RowFaithful
  BY DEF RequestsInv, Current, RowFaithful, SaysOf, About, Creating
<1>. QED
  BY <1>1, RequestsInvHolds, PTL

(* NewUpdateOrder leaves out a match id and a match contract of zero one   *)
(* by one, yet a row never has the id of one match and the contract of     *)
(* another, if no event names a match without its contract and the id of   *)
(* the last match named is not zero and not cut to zero.                   *)
THEOREM PairsAreWhole ==
    ASSUME MatchNamedWhole
    PROVE  Spec => []PairFromOneEvent
<1>1. RequestsInv /\ PairInv => PairFromOneEvent
  BY DEF PairInv, CurrentPair, PairOf, PairFromOneEvent, About
<1>2. RequestsInv /\ FromStatuses /\ PairInv /\ [Next]_vars
      => RequestsInv' /\ FromStatuses' /\ PairInv'
  BY RequestsInvStep, FromStatusesStep, PairInvStep
<1>. QED
  BY <1>1, <1>2, InitRequestsInv, PTL DEF Spec

(* The indexer stops for ever only at an update of a number that no int64  *)
(* holds, or of zero: the creation of any other left a row at its number,  *)
(* or found one that a larger number was cut to, and a row never goes      *)
(* (handleOrderCreated, handleOrderUpdated and their twins).               *)
THEOREM StopsOnlyBeyondInt64 == Spec => []StuckOnlyBeyondInt64
<1>1. Init => HasRows
  BY DEF Init, HasRows
<1>2. RequestsInv /\ HasRows => StuckOnlyBeyondInt64
  <2>. SUFFICES ASSUME RequestsInv, HasRows, Stuck, log.id # 0, ~(log.id >= Half)
                PROVE  FALSE
    BY DEF StuckOnlyBeyondInt64
  <2>1. log # NoLog /\ log.event \in UpdateEvents /\ log.event \notin Creations
    BY DEF Stuck, NoLog, UpdateEvents, Creations
  <2>2. log.id \in Nat
    BY <2>1 DEF RequestsInv, Types, Log
  <2>3. log.id \in 1..(Half - 1) /\ ParseInt(log.id) = {log.id}
    BY <2>2, Widths DEF ParseInt
  <2>4. PICK c \in contract : About(c)
    BY <2>1 DEF RequestsInv, Pending
  <2>5. RowsAt(LogKind, log.id) # {}
    BY <2>1, <2>3, <2>4 DEF HasRows, About, Creating
  <2>6. Reached(LogKind) # {}
    BY <2>3, <2>5 DEF Reached
  <2>. QED
    BY <2>6 DEF Stuck, LogKind
<1>. QED
  BY <1>1, <1>2, HasRowsStep, RequestsInvHolds, PTL DEF Spec

=============================================================================
