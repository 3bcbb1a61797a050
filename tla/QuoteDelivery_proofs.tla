------------------------- MODULE QuoteDelivery_proofs -------------------------
(***************************************************************************)
(* Deliveries of one sales job, for any number of calls, retries, quotes   *)
(* and restarts.  Two things carry the proofs: a call that is past         *)
(* createArtifact has the index manifest of its quote on disk, also when   *)
(* calls overlap; and with one call at a time the checkpoint names the     *)
(* newest of the quotes that anybody knows, the only one a call works on,  *)
(* which is not delivered yet.                                             *)
(***************************************************************************)
EXTENDS QuoteDelivery, TLAPS

Linked   == {"saved", "permit", "receipt", "update"}
Unlinked == {"render", "upload", "check", "remove", "token", "index"}

Last == Len(quotes)

\* Names of quotes are quotes, of generations that have been.
NamesAreQuotes ==
  /\ checkpoint.quote \in 0..Last /\ receipt \in 0..Last /\ keyed \subseteq 1..Last
  /\ \A c \in Calls : Delivering(c) => call[c].quote \in 1..Last
  /\ \A q \in 1..Last : quotes[q].generation <= job.generation
  /\ job.status \in Delivered \/ job.fresh => receipt # 0

LinkedCallsHaveLink == \A c \in Calls : call[c].step \in Linked => call[c].quote \in links

-----------------------------------------------------------------------------
(* One call at a time *)

OneCall == \A c, d \in Calls : Delivering(c) /\ Delivering(d) => c = d

Named == checkpoint.quote

\* While the checkpoint names no quote, nobody knows one: put() has stopped
\* before its third write, each time.
NothingKnown ==
  Named = 0 =>
    /\ receipt = 0 /\ job.generation = 0
    /\ \A q \in 1..Last : quotes[q].delivery = "pending"

\* A call delivers the quote the checkpoint names, or the one it found by its
\* key and which the checkpoint will name when its workbook is saved.
CallIsNamed ==
  \A c \in Calls : Delivering(c) =>
    /\ quotes[call[c].quote].delivery # "delivered"
    /\ \/ call[c].quote = Named
       \/ Named = 0 /\ call[c].replay /\ call[c].step \notin {"permit", "receipt", "update"}

\* Known quotes are of different generations, and only the one the checkpoint
\* names may be a full one.
NamedIsNewest ==
  /\ \A q \in 1..Last : Known(q) /\ q # Named =>
       q < Named /\ quotes[q].generation < quotes[Named].generation /\ quotes[q].partial
  /\ \A p, q \in 1..Last : Known(p) /\ Known(q) /\ p < q =>
       quotes[p].generation < quotes[q].generation

\* A link leads to a workbook, and a call that is before its link has none.
LinksAreLive ==
  /\ \A q \in links : Live(q)
  /\ \A c \in Calls : call[c].step \in Unlinked => call[c].quote \notin links
  /\ \A c \in Calls : call[c].step \in {"check", "token", "index"} => call[c].quote \in objects
  /\ \A c \in Calls : call[c].step = "index" => call[c].quote \in tokens

CompletedIsFull == job.status = "completed" => receipt # 0 /\ ~quotes[receipt].partial

Alone ==
  /\ OneCall /\ NothingKnown /\ CallIsNamed /\ NamedIsNewest
  /\ LinksAreLive /\ CompletedIsFull

-----------------------------------------------------------------------------
(* ... and every receipt noted in its record *)

\* The quote of the receipt is delivered, or about to be marked so.
ReceiptIsDelivered ==
  receipt # 0 =>
    \/ quotes[receipt].delivery = "delivered"
    \/ \E c \in Calls : call[c].step = "update" /\ call[c].quote = receipt

\* Receipts and calls belong to the generation of the job.
Present ==
  /\ job.fresh \/ job.status = "partial" => quotes[receipt].generation = job.generation
  /\ job.status = "partial" => quotes[receipt].partial
  /\ \A c \in Calls : Delivering(c) /\ call[c].step # "update" =>
       ~job.fresh /\ quotes[call[c].quote].generation = job.generation
  /\ Named # 0 /\ ~quotes[Named].partial => quotes[Named].generation = job.generation

IInv ==
  /\ TypeOK /\ NamesAreQuotes /\ LinkedCallsHaveLink /\ PublishedHasLink
  /\ ~overlap => Alone
  /\ ~overlap /\ ~unmarked => ReceiptIsDelivered /\ Present

-----------------------------------------------------------------------------
(* Records *)

\* What a step that puts no new quote may do to the records.
OnlyMarks(q) ==
  /\ Len(quotes') = Len(quotes)
  /\ \A p \in 1..Len(quotes) :
       /\ quotes'[p].generation = quotes[p].generation
       /\ quotes'[p].partial = quotes[p].partial
       /\ p # q => quotes'[p].delivery = quotes[p].delivery

LEMMA Marked ==
  ASSUME quotes \in Seq(Quote), NEW q \in 1..Len(quotes),
         NEW d \in {"pending", "delivered", "failed"}, MarkDelivery(q, d)
  PROVE  quotes' \in Seq(Quote) /\ OnlyMarks(q) /\ quotes'[q].delivery = d
  <1> DEFINE s == quotes
             r == [s[q] EXCEPT !.delivery = d]
             t == [s EXCEPT ![q] = r]
  <1>1. s[q] \in Quote
    OBVIOUS
  <1>2. r \in Quote /\ r.delivery = d /\ r.generation = s[q].generation /\ r.partial = s[q].partial
    BY <1>1 DEF Quote
  <1> HIDE DEF r
  <1>3. t \in Seq(Quote) /\ Len(t) = Len(s) /\ t[q] = r /\ \A p \in 1..Len(s) : p # q => t[p] = s[p]
    BY <1>2
  <1>4. quotes' = t
    BY DEF r, MarkDelivery
  <1> QED  BY <1>2, <1>3, <1>4 DEF OnlyMarks

LEMMA Appended ==
  ASSUME NEW s \in Seq(Quote), NEW r \in Quote
  PROVE  /\ Append(s, r) \in Seq(Quote) /\ Len(Append(s, r)) = Len(s) + 1
         /\ Append(s, r)[Len(s) + 1] = r
         /\ \A p \in 1..Len(s) : Append(s, r)[p] = s[p]
  OBVIOUS

\* What put() appends.
LEMMA PutsOne ==
  ASSUME TypeOK, NamesAreQuotes, NEW c \in Calls, NEW partial \in BOOLEAN, Puts(c, partial)
  PROVE  /\ quotes' \in Seq(Quote) /\ Last' = Last + 1 /\ Last' \in 1..MaxQuotes
         /\ \A p \in 1..Last : quotes'[p] = quotes[p]
         /\ quotes'[Last'].generation = job.generation /\ quotes'[Last'].delivery = "pending"
         /\ quotes'[Last'].partial = partial
         /\ \A p \in 1..Last' : p = Last' \/ p \in 1..Last
         /\ DOMAIN quotes' = 1..Last' /\ Last \in Nat
         /\ ~Delivering(c) /\ \E q \in Found : Replay(q) = 0
  <1> DEFINE r == [generation |-> job.generation, partial |-> partial, delivery |-> "pending"]
  <1>1. r \in Quote /\ r.generation = job.generation /\ r.delivery = "pending" /\ r.partial = partial
    BY DEF TypeOK, Quote
  <1>2. quotes' = Append(quotes, r) /\ Len(quotes) < MaxQuotes
    BY DEF Puts
  <1> HIDE DEF r
  <1>3. /\ quotes' \in Seq(Quote) /\ Len(quotes') = Len(quotes) + 1
        /\ quotes'[Len(quotes) + 1] = r
        /\ \A p \in 1..Len(quotes) : quotes'[p] = quotes[p]
    BY <1>1, <1>2, Appended DEF TypeOK
  <1>4. Len(quotes) \in Nat /\ MaxQuotes \in Nat
    BY DeliveryAssumption DEF TypeOK
  <1>5. Last = Len(quotes) /\ Last' = Last + 1 /\ Last \in Nat /\ Last' \in 1..MaxQuotes
    BY <1>2, <1>3, <1>4 DEF Last
  <1>6. \A p \in 1..Last' : p = Last' \/ p \in 1..Last
    BY <1>5
  <1>7. DOMAIN quotes' = 1..Last'
    BY <1>3 DEF Last
  <1> QED  BY <1>1, <1>3, <1>5, <1>6, <1>7 DEF Puts

\* An error ends the call; only the record it was delivering is touched.
LEMMA GivesUp ==
  ASSUME TypeOK, NamesAreQuotes, NEW c \in Calls, Delivering(c), Gives(c)
  PROVE  /\ call' = [call EXCEPT ![c] = Idle]
         /\ quotes' \in Seq(Quote) /\ OnlyMarks(call[c].quote)
         /\ call[c].replay => UNCHANGED <<quotes, checkpoint>>
         /\ \A p \in 1..Last : quotes'[p].delivery = "delivered" => quotes[p].delivery = "delivered"
         /\ checkpoint' \in [stage : Stages, quote : 0..MaxQuotes]
         /\ checkpoint'.quote \in {checkpoint.quote, call[c].quote}
  <1>1. quotes \in Seq(Quote) /\ Len(quotes) <= MaxQuotes /\ call[c].quote \in 1..Len(quotes)
    BY DEF TypeOK, NamesAreQuotes, Last
  <1>2. call' = [call EXCEPT ![c] = Idle]
    BY DEF Gives
  <1>3. CASE UNCHANGED <<quotes, checkpoint>>
    BY <1>1, <1>2, <1>3 DEF OnlyMarks, TypeOK
  <1>4. CASE ~UNCHANGED <<quotes, checkpoint>>
    <2>1. /\ MarkDelivery(call[c].quote, "failed") /\ ~call[c].replay
          /\ UNCHANGED checkpoint \/ MarkStage("failed", call[c].quote)
      BY <1>4 DEF Gives
    <2>2. /\ quotes' \in Seq(Quote) /\ OnlyMarks(call[c].quote)
          /\ quotes'[call[c].quote].delivery = "failed"
      BY <1>1, <2>1, Marked
    <2>3. checkpoint' \in {checkpoint, [stage |-> "failed", quote |-> call[c].quote]}
      BY <2>1 DEF MarkStage
    <2>4. MaxQuotes \in Nat
      BY DeliveryAssumption
    <2>5. checkpoint' \in [stage : Stages, quote : 0..MaxQuotes]
      BY <1>1, <2>3, <2>4 DEF Stages, TypeOK
    <2>6. \A p \in 1..Last : quotes'[p].delivery = "delivered" => quotes[p].delivery = "delivered"
      BY <2>2 DEF Last, OnlyMarks
    <2> QED  BY <1>2, <2>1, <2>2, <2>3, <2>5, <2>6
  <1> QED  BY <1>3, <1>4

\* The writes that deliverRecord makes at its end: the record, and the
\* checkpoint or not.
Notes(c) == MarkDelivered(c) \/ MarkRecordOnly(c)

LEMMA Delivers ==
  ASSUME TypeOK, NamesAreQuotes, NEW c \in Calls, Notes(c)
  PROVE  /\ call[c].step = "update" /\ Delivering(c)
         /\ call' = [call EXCEPT ![c] = Idle]
         /\ quotes' \in Seq(Quote) /\ OnlyMarks(call[c].quote)
         /\ quotes'[call[c].quote].delivery = "delivered"
         /\ checkpoint' \in [stage : Stages, quote : 0..MaxQuotes]
         /\ checkpoint'.quote \in {checkpoint.quote, call[c].quote}
         /\ UNCHANGED <<job, keyed, artifacts, receipt, history>>
  <1>1. call[c].step = "update" /\ Delivering(c)
    BY DEF Notes, MarkDelivered, MarkRecordOnly, Delivering
  <1>2. quotes \in Seq(Quote) /\ Len(quotes) <= MaxQuotes /\ call[c].quote \in 1..Len(quotes)
    BY <1>1 DEF TypeOK, NamesAreQuotes, Last
  <1>3. MarkDelivery(call[c].quote, "delivered")
    BY DEF Notes, MarkDelivered, MarkRecordOnly
  <1>4. /\ quotes' \in Seq(Quote) /\ OnlyMarks(call[c].quote)
        /\ quotes'[call[c].quote].delivery = "delivered"
    BY <1>2, <1>3, Marked
  <1>5. checkpoint' \in {checkpoint, [stage |-> "delivery_completed", quote |-> call[c].quote]}
    BY DEF Notes, MarkDelivered, MarkRecordOnly, MarkStage
  <1>6. checkpoint' \in [stage : Stages, quote : 0..MaxQuotes]
    BY <1>2, <1>5, DeliveryAssumption DEF Stages, TypeOK
  <1>7. UNCHANGED <<job, keyed, artifacts, receipt, history>> /\ call' = [call EXCEPT ![c] = Idle]
    BY DEF Notes, MarkDelivered, MarkRecordOnly
  <1> QED  BY <1>1, <1>4, <1>5, <1>6, <1>7

-----------------------------------------------------------------------------
(* The types *)

LEMMA InitTypeOK == Init => TypeOK
  <1> SUFFICES ASSUME Init PROVE TypeOK
    OBVIOUS
  <1>0. MaxRetries \in Nat /\ MaxQuotes \in Nat \ {0}
    BY DeliveryAssumption
  <1>1. quotes \in Seq(Quote) /\ Len(quotes) <= MaxQuotes
    BY <1>0 DEF Init
  <1>2. call \in [Calls -> Call]
    BY <1>0 DEF Init, Idle, Call, Steps
  <1>3. job \in [status : {"queued", "processing", "stale"} \union Ended,
                generation : 0..MaxRetries, fresh : BOOLEAN]
    <2>1. job \in [status : {"processing", "stale"}, generation : {0}, fresh : {FALSE}]
      BY DEF Init
    <2>2. 0 \in 0..MaxRetries
      BY <1>0
    <2> QED  BY <2>1, <2>2
  <1>4. checkpoint \in [stage : Stages, quote : 0..MaxQuotes] /\ receipt \in 0..MaxQuotes
    BY <1>0 DEF Init, Stages
  <1>5. \A s \in {objects, tokens, links} : s \subseteq 1..MaxQuotes
    BY DEF Init
  <1>6. overlap \in BOOLEAN /\ unmarked \in BOOLEAN /\ keyed \subseteq 1..MaxQuotes
    BY DEF Init
  <1> QED  BY <1>1, <1>2, <1>3, <1>4, <1>5, <1>6 DEF TypeOK

\* A call that goes on, or ends.
LEMMA CallMoves ==
  ASSUME TypeOK, NEW c \in Calls, NEW step \in Steps
  PROVE  /\ [call EXCEPT ![c].step = step] \in [Calls -> Call]
         /\ [call EXCEPT ![c] = Idle] \in [Calls -> Call]
  BY DeliveryAssumption DEF TypeOK, Call, Idle, Steps

LEMMA CallStarts ==
  ASSUME TypeOK, NEW c \in Calls, NEW q \in 0..MaxQuotes, NEW replay \in BOOLEAN,
         Starts(c, q, replay)
  PROVE  /\ call' \in [Calls -> Call] /\ overlap' \in BOOLEAN
         /\ call'[c] = [step |-> "guard", quote |-> q, replay |-> replay]
         /\ \A d \in Calls : d # c => call'[d] = call[d]
         /\ ~overlap' => ~overlap /\ \A d \in Calls : d # c => ~Delivering(d)
  BY DEF Starts, TypeOK, Call, Steps

\* Calls take numbers of quotes that exist.
LEMMA CallsQuote ==
  ASSUME TypeOK, NamesAreQuotes, NEW c \in Calls, Delivering(c)
  PROVE  call[c].quote \in 1..Last /\ call[c].quote \in 1..MaxQuotes /\ call[c] \in Call
  BY DeliveryAssumption DEF TypeOK, NamesAreQuotes, Last

\* The steps of createArtifact that go on: nothing but the call and the
\* artifacts changes.
Advances(c) ==
  /\ Delivering(c)
  /\ \E step \in Steps \ {"idle"} : Step(c, step)
  /\ UNCHANGED <<job, quotes, keyed, checkpoint, receipt, history>>

\* A call whose receipt is not written yet.
InFlight(c) == Delivering(c) /\ call[c].step # "update"

\* A call that ends with an error.
Fails(c) ==
  /\ InFlight(c) /\ Gives(c) /\ UNCHANGED <<job, keyed, tokens, links, receipt, history>>
  /\ objects' # objects =>
       call[c].step = "remove" /\ objects' = objects \ {call[c].quote}

\* A step of a call: it stands still, puts a quote, starts, fails, or goes on.
LEMMA CallerDoes ==
  ASSUME NEW c \in Calls, Caller(c)
  PROVE  \/ UNCHANGED vars
         \/ ReplayDelivery(c)
         \/ \E partial \in BOOLEAN : NewQuote(c, partial)
         \/ \E partial \in BOOLEAN : PutStops(c, partial)
         \/ Fails(c) \/ UpdateFails(c)
         \/ (Guard(c) /\ CanFinalize /\ Advances(c))
         \/ Lookup(c) \/ Upload(c) \/ Check(c)
         \/ WriteToken(c) \/ WriteIndex(c) \/ SaveArtifactStage(c)
         \/ WriteReceipt(c) \/ Notes(c)
  <1>1. ASSUME Guard(c), ~CanFinalize
        PROVE  Fails(c)
    BY <1>1 DEF Guard, Fails, InFlight, Delivering, artifacts
  <1>2. ASSUME Guard(c), CanFinalize PROVE Advances(c)
    BY <1>2 DEF Guard, Advances, Delivering, Steps
  <1>3. ASSUME Remove(c)
        PROVE  Fails(c)
    <2>1. call[c].step = "remove" /\ Gives(c) /\ UNCHANGED <<job, keyed, tokens, links, receipt, history>>
      BY <1>3 DEF Remove
    <2>2. objects' = objects \/ objects' = objects \ {call[c].quote}
      BY <1>3 DEF Remove
    <2> QED  BY <2>1, <2>2 DEF Fails, InFlight, Delivering
  <1>4. ASSUME WriteFails(c)
        PROVE  Fails(c)
    BY <1>4 DEF WriteFails, Fails, InFlight, Delivering, artifacts
  <1> QED  BY <1>1, <1>2, <1>3, <1>4 DEF Caller, ReturnSaved, artifacts, Notes

\* The quotes a call may find by the job or by its key.
LEMMA FoundIsQuote ==
  ASSUME TypeOK, NamesAreQuotes, NEW q \in Found
  PROVE  /\ q \in 0..Last /\ q \in 0..MaxQuotes /\ Replay(q) \in {0, q}
         /\ Named # 0 => q = Named
         /\ Named = 0 => q \in keyed \union {0}
  <1>1. Last \in Nat /\ MaxQuotes \in Nat /\ Last <= MaxQuotes
    BY DeliveryAssumption DEF TypeOK, Last
  <1>2. q = Named \/ q \in keyed \union {0}
    BY DEF Found, Named
  <1>3. q \in 0..Last
    <2>1. 1..Last \subseteq 0..Last /\ 0 \in 0..Last
      BY <1>1
    <2> QED  BY <1>2, <2>1 DEF NamesAreQuotes, Named
  <1>4. q \in 0..MaxQuotes
    BY <1>1, <1>3
  <1>5. Replay(q) \in {0, q}
    BY DEF Replay
  <1>6. (Named # 0 => q = Named) /\ (Named = 0 => q \in keyed \union {0})
    BY DEF Found, Named
  <1> QED  BY <1>3, <1>4, <1>5, <1>6

\* A call that takes up a quote it found.
LEMMA Replays ==
  ASSUME TypeOK, NamesAreQuotes, NEW c \in Calls, ReplayDelivery(c)
  PROVE  /\ ~Delivering(c)
         /\ \E q \in Found :
              /\ q \in 1..Last /\ q \in 0..MaxQuotes /\ Replay(q) = q
              /\ Starts(c, q, TRUE) /\ quotes[q].delivery # "delivered"
         /\ UNCHANGED <<job, quotes, keyed, checkpoint, artifacts, receipt, unmarked>>
  <1>1. PICK q \in Found : Replay(q) # 0 /\ Starts(c, q, TRUE) /\ quotes[q].delivery # "delivered"
    BY DEF ReplayDelivery
  <1>2. q \in 0..Last /\ q \in 0..MaxQuotes /\ Replay(q) = q /\ q # 0
    BY <1>1, FoundIsQuote
  <1>3. q \in 1..Last
    BY <1>2 DEF Last, TypeOK
  <1> QED  BY <1>1, <1>2, <1>3 DEF ReplayDelivery

LEMMA TypeOKStep ==
  ASSUME TypeOK, NamesAreQuotes, [Next]_vars
  PROVE  TypeOK'
  <1>0. MaxRetries \in Nat /\ MaxQuotes \in Nat \ {0}
    BY DeliveryAssumption
  <1>1. ASSUME NEW c \in Calls, Caller(c) PROVE TypeOK'
    <2> USE <1>0
    <2>1. CASE UNCHANGED vars
      BY <2>1 DEF TypeOK, vars, history, Quote, Call
    <2>2. CASE ReplayDelivery(c)
      <3>1. PICK q \in 0..MaxQuotes : Starts(c, q, TRUE)
        BY <2>2, Replays
      <3>2. call' \in [Calls -> Call] /\ overlap' \in BOOLEAN
        BY <3>1, CallStarts
      <3> QED  BY <2>2, <3>2 DEF ReplayDelivery, TypeOK, artifacts
    <2>3. ASSUME NEW partial \in BOOLEAN, NewQuote(c, partial) PROVE TypeOK'
      <3>1. Puts(c, partial) /\ Starts(c, Last', FALSE)
        BY <2>3 DEF NewQuote, Last
      <3>2. quotes' \in Seq(Quote) /\ Last' \in 1..MaxQuotes
        BY <3>1, PutsOne
      <3> DEFINE n == Last'
      <3>8. 1..MaxQuotes \subseteq 0..MaxQuotes
        BY <1>0
      <3>3. n \in 0..MaxQuotes /\ Starts(c, n, FALSE)
        BY <3>1, <3>2, <3>8
      <3>4. checkpoint' = [stage |-> "estimate_validated", quote |-> n] /\ keyed' = keyed \union {n}
        BY <2>3 DEF NewQuote, MarkStage, Last
      <3>7. Len(quotes') <= MaxQuotes
        BY <3>2 DEF Last
      <3> HIDE DEF n
      <3>5. call' \in [Calls -> Call] /\ overlap' \in BOOLEAN
        BY <3>3, CallStarts
      <3>6. checkpoint' \in [stage : Stages, quote : 0..MaxQuotes] /\ keyed' \subseteq 1..MaxQuotes
        BY <3>2, <3>3, <3>4 DEF Stages, TypeOK, n
      <3> QED  BY <2>3, <3>2, <3>5, <3>6, <3>7 DEF NewQuote, TypeOK, artifacts
    <2>12. ASSUME NEW partial \in BOOLEAN, PutStops(c, partial) PROVE TypeOK'
      <3>1. Puts(c, partial) /\ (keyed' = keyed \/ keyed' = keyed \union {Last'})
        BY <2>12 DEF PutStops, Last
      <3>2. quotes' \in Seq(Quote) /\ Last' \in 1..MaxQuotes
        BY <3>1, PutsOne
      <3>3. keyed' \subseteq 1..MaxQuotes /\ Len(quotes') <= MaxQuotes
        <4>1. keyed' \subseteq 1..MaxQuotes
          BY <3>1, <3>2 DEF TypeOK
        <4>2. Len(quotes') <= MaxQuotes
          BY <3>2 DEF Last
        <4> QED  BY <4>1, <4>2
      <3>4. UNCHANGED <<job, checkpoint, objects, tokens, links, receipt, call, overlap, unmarked>>
        BY <2>12 DEF PutStops, artifacts, history
      <3> QED  BY <3>2, <3>3, <3>4 DEF TypeOK
    <2>13. CASE UpdateFails(c)
      <3>1. /\ call' = [call EXCEPT ![c] = Idle] /\ quotes' \in Seq(Quote)
            /\ Len(quotes') = Len(quotes)
            /\ checkpoint' \in [stage : Stages, quote : 0..MaxQuotes]
        BY <2>13, GivesUp DEF UpdateFails, Delivering, OnlyMarks
      <3>2. call' \in [Calls -> Call]
        BY <3>1, CallMoves DEF Steps
      <3> QED  BY <2>13, <3>1, <3>2 DEF UpdateFails, TypeOK, artifacts
    <2>4. CASE Fails(c)
      <3>1. /\ call' = [call EXCEPT ![c] = Idle] /\ quotes' \in Seq(Quote)
            /\ Len(quotes') = Len(quotes)
            /\ checkpoint' \in [stage : Stages, quote : 0..MaxQuotes]
        BY <2>4, GivesUp DEF Fails, InFlight, OnlyMarks
      <3>2. call' \in [Calls -> Call]
        BY <3>1, CallMoves DEF Steps
      <3>3. objects' \subseteq 1..MaxQuotes
        BY <2>4 DEF Fails, TypeOK
      <3> QED  BY <2>4, <3>1, <3>2, <3>3 DEF Fails, TypeOK, history
    <2>5. ASSUME Delivering(c), \E step \in Steps : Step(c, step)
          PROVE  call[c].quote \in 1..MaxQuotes /\ call' \in [Calls -> Call]
      BY <2>5, CallMoves, CallsQuote DEF Step
    <2>6. CASE Guard(c) /\ CanFinalize /\ Advances(c)
      <3>1. call' \in [Calls -> Call]
        BY <2>5, <2>6 DEF Advances
      <3> QED  BY <2>6, <3>1 DEF Guard, Advances, TypeOK, artifacts, history
    <2>7. CASE Lookup(c) \/ Check(c)
      <3>1. call' \in [Calls -> Call]
        BY <2>5, <2>7 DEF Lookup, Check, Delivering, Steps
      <3> QED  BY <2>7, <3>1 DEF Lookup, Check, TypeOK, artifacts, history
    <2>8. CASE Upload(c) \/ WriteToken(c) \/ WriteIndex(c)
      <3>1. call[c].quote \in 1..MaxQuotes /\ call' \in [Calls -> Call]
        BY <2>5, <2>8 DEF Upload, WriteToken, WriteIndex, Delivering, Steps
      <3>2. \A s \in {objects', tokens', links'} : s \subseteq 1..MaxQuotes
        BY <2>8, <3>1 DEF Upload, WriteToken, WriteIndex, TypeOK
      <3> QED  BY <2>8, <3>1, <3>2 DEF Upload, WriteToken, WriteIndex, TypeOK, history
    <2>9. CASE SaveArtifactStage(c)
      <3>1. call[c].quote \in 1..MaxQuotes /\ call' \in [Calls -> Call]
        BY <2>5, <2>9 DEF SaveArtifactStage, Delivering, Steps
      <3>2. checkpoint' \in [stage : Stages, quote : 0..MaxQuotes]
        BY <2>9, <3>1 DEF SaveArtifactStage, MarkStage, Stages
      <3> QED  BY <2>9, <3>1, <3>2 DEF SaveArtifactStage, TypeOK, artifacts, history
    <2>10. CASE WriteReceipt(c)
      <3>1. call[c].quote \in 1..MaxQuotes /\ call' \in [Calls -> Call]
        BY <2>5, <2>10 DEF WriteReceipt, Delivering, Steps
      <3>2. job' \in [status : {"queued", "processing", "stale"} \union Ended,
                     generation : 0..MaxRetries, fresh : BOOLEAN]
        BY <2>10 DEF WriteReceipt, TypeOK
      <3> QED  BY <2>10, <3>1, <3>2 DEF WriteReceipt, TypeOK, artifacts, history
    <2>11. CASE Notes(c)
      <3>1. /\ call' = [call EXCEPT ![c] = Idle] /\ quotes' \in Seq(Quote)
            /\ Len(quotes') = Len(quotes)
            /\ checkpoint' \in [stage : Stages, quote : 0..MaxQuotes]
            /\ UNCHANGED <<job, keyed, artifacts, receipt, history>>
        BY <2>11, Delivers DEF OnlyMarks
      <3>2. call' \in [Calls -> Call]
        BY <3>1, CallMoves DEF Steps
      <3> QED  BY <3>1, <3>2 DEF TypeOK, artifacts, history
    <2> QED  BY <1>1, CallerDoes, <2>1, <2>2, <2>3, <2>4, <2>6, <2>7, <2>8, <2>9, <2>10, <2>11,
                <2>12, <2>13
  <1>2. CASE Adopt \/ Claim \/ \E status \in Ended : Stop(status)
    <2>1. job' \in [status : {"queued", "processing", "stale"} \union Ended,
                   generation : 0..MaxRetries, fresh : BOOLEAN]
      BY <1>2 DEF Adopt, Claim, Stop, TypeOK, Ended, Delivered
    <2> QED  BY <1>2, <2>1 DEF Adopt, Claim, Stop, TypeOK, artifacts, history
  <1>3. CASE RetryPartial
    <2>1. job' \in [status : {"queued", "processing", "stale"} \union Ended,
                   generation : 0..MaxRetries, fresh : BOOLEAN]
      BY <1>0, <1>3 DEF RetryPartial, TypeOK
    <2> QED  BY <1>3, <2>1 DEF RetryPartial, TypeOK, artifacts, history
  <1>4. CASE Restart
    <2>1. call' \in [Calls -> Call]
      BY <1>0, <1>4 DEF Restart, Idle, Call, Steps
    <2> QED  BY <1>4, <2>1 DEF Restart, TypeOK, artifacts
  <1>5. CASE UNCHANGED vars
    BY <1>5 DEF TypeOK, vars, history, artifacts, Quote, Call
  <1> QED  BY <1>1, <1>2, <1>3, <1>4, <1>5 DEF Next

-----------------------------------------------------------------------------
(* What holds also when calls overlap *)

LEMMA Moves ==
  ASSUME TypeOK, NEW c \in Calls, NEW step \in Steps, Step(c, step)
  PROVE  /\ call'[c].step = step /\ call'[c].quote = call[c].quote
         /\ call'[c].replay = call[c].replay
         /\ \A d \in Calls : d # c => call'[d] = call[d]
  BY DEF TypeOK, Step, Call

LEMMA Ends ==
  ASSUME TypeOK, NEW c \in Calls, call' = [call EXCEPT ![c] = Idle]
  PROVE  /\ call'[c] = Idle /\ call'[c].step = "idle"
         /\ \A d \in Calls : d # c => call'[d] = call[d]
  BY DEF TypeOK, Call, Idle

Common == NamesAreQuotes /\ LinkedCallsHaveLink /\ PublishedHasLink

\* A call that moves and leaves the records and the checkpoint alone.
LEMMA CommonMoves ==
  ASSUME TypeOK, Common, NEW c \in Calls, NEW step \in Steps, Delivering(c), Step(c, step),
         UNCHANGED <<job, quotes, keyed, checkpoint, receipt>>,
         links \subseteq links', step \in Linked => call[c].quote \in links'
  PROVE  Common'
  <1>1. /\ call'[c].step = step /\ call'[c].quote = call[c].quote
        /\ \A d \in Calls : d # c => call'[d] = call[d]
    BY Moves
  <1>2. NamesAreQuotes'
    BY <1>1 DEF Common, NamesAreQuotes, Delivering, Last
  <1>3. LinkedCallsHaveLink'
    BY <1>1 DEF Common, LinkedCallsHaveLink
  <1>4. PublishedHasLink'
    BY DEF Common, PublishedHasLink
  <1> QED  BY <1>2, <1>3, <1>4 DEF Common

\* A call that ends, with or without its record marked.
LEMMA CommonEnds ==
  ASSUME TypeOK, Common, NEW c \in Calls, Delivering(c), call' = [call EXCEPT ![c] = Idle],
         quotes' \in Seq(Quote), OnlyMarks(call[c].quote),
         \A p \in 1..Last : quotes'[p].delivery = "delivered" =>
           quotes[p].delivery = "delivered" \/ p \in links,
         checkpoint'.quote \in {checkpoint.quote, call[c].quote},
         UNCHANGED <<job, keyed, links, receipt>>
  PROVE  Common'
  <1>1. /\ call'[c].step = "idle"
        /\ \A d \in Calls : d # c => call'[d] = call[d]
    BY Ends
  <1>2. /\ Last' = Last /\ Last \in Nat /\ call[c].quote \in 1..Last
        /\ DOMAIN quotes = 1..Last /\ DOMAIN quotes' = 1..Last
    BY CallsQuote DEF Last, OnlyMarks, TypeOK, Common
  <1>3. NamesAreQuotes'
    <2>1. checkpoint'.quote \in 0..Last /\ receipt' \in 0..Last /\ keyed' \subseteq 1..Last
      BY <1>2 DEF Common, NamesAreQuotes
    <2>2. \A d \in Calls : call'[d].step # "idle" => call'[d].quote \in 1..Last
      BY <1>1 DEF Common, NamesAreQuotes, Delivering
    <2>3. \A q \in 1..Last : quotes'[q].generation <= job'.generation
      BY <1>2 DEF Common, NamesAreQuotes, OnlyMarks, Last
    <2> QED  BY <1>2, <2>1, <2>2, <2>3 DEF Common, NamesAreQuotes, Delivering
  <1>4. LinkedCallsHaveLink'
    BY <1>1 DEF Common, LinkedCallsHaveLink, Linked
  <1>5. PublishedHasLink'
    BY <1>2 DEF Common, PublishedHasLink
  <1> QED  BY <1>3, <1>4, <1>5 DEF Common

LEMMA CommonStep ==
  ASSUME TypeOK, Common, [Next]_vars
  PROVE  Common'
  <1>0. quotes \in Seq(Quote) /\ Last \in Nat /\ DOMAIN quotes = 1..Last /\ NamesAreQuotes
    BY DEF TypeOK, Last, Common
  <1>1. ASSUME NEW c \in Calls, Caller(c) PROVE Common'
    <2>1. CASE UNCHANGED vars
      BY <2>1 DEF vars, history, artifacts, Common, NamesAreQuotes, LinkedCallsHaveLink,
                  PublishedHasLink, Delivering, Last
    <2>2. CASE ReplayDelivery(c)
      <3>1. PICK q \in Found : q \in 1..Last /\ q \in 0..MaxQuotes /\ Starts(c, q, TRUE)
        BY <1>0, <2>2, Replays
      <3>2. /\ call'[c] = [step |-> "guard", quote |-> q, replay |-> TRUE]
            /\ \A d \in Calls : d # c => call'[d] = call[d]
        BY <3>1, CallStarts
      <3>3. NamesAreQuotes'
        BY <2>2, <3>1, <3>2 DEF ReplayDelivery, Common, NamesAreQuotes, Delivering, Last
      <3>4. LinkedCallsHaveLink' /\ PublishedHasLink'
        BY <2>2, <3>2 DEF ReplayDelivery, Common, LinkedCallsHaveLink, PublishedHasLink,
                          artifacts, Linked
      <3> QED  BY <3>3, <3>4 DEF Common
    <2>3. ASSUME NEW partial \in BOOLEAN, NewQuote(c, partial) PROVE Common'
      <3> DEFINE n == Last'
      <3>1. Puts(c, partial)
        BY <2>3 DEF NewQuote
      <3>2. /\ n = Last + 1 /\ n \in 1..MaxQuotes /\ DOMAIN quotes' = 1..n
            /\ \A p \in 1..Last : quotes'[p] = quotes[p]
            /\ quotes'[n].generation = job.generation /\ quotes'[n].delivery = "pending"
            /\ \A p \in 1..n : p = n \/ p \in 1..Last
        BY <1>0, <3>1, PutsOne
      <3>3. Starts(c, n, FALSE) /\ checkpoint'.quote = n /\ keyed' = keyed \union {n}
        BY <2>3 DEF NewQuote, MarkStage, Last
      <3>4. Last' = n /\ n \in 0..MaxQuotes
        BY <3>2
      <3> HIDE DEF n
      <3>5. /\ call'[c] = [step |-> "guard", quote |-> n, replay |-> FALSE]
            /\ \A d \in Calls : d # c => call'[d] = call[d]
        BY <3>3, <3>4, CallStarts
      <3>6. UNCHANGED <<job, links, receipt>> /\ n \in 1..n
        BY <1>0, <2>3, <3>2 DEF NewQuote, artifacts
      <3>7. NamesAreQuotes'
        <4>1. checkpoint'.quote \in 0..n /\ receipt' \in 0..n /\ keyed' \subseteq 1..n
          <5>1. 1..Last \subseteq 1..n /\ n \in 1..n /\ 0..Last \subseteq 0..n /\ n \in 0..n
            BY <1>0, <3>2
          <5> QED  BY <1>0, <3>3, <3>6, <5>1 DEF NamesAreQuotes
        <4>2. \A d \in Calls : call'[d].step # "idle" => call'[d].quote \in 1..n
          BY <1>0, <3>2, <3>5, <3>6 DEF NamesAreQuotes, Delivering
        <4>3. \A q \in 1..n : quotes'[q].generation <= job.generation
          BY <1>0, <3>2, <3>6, DeliveryAssumption DEF NamesAreQuotes, TypeOK
        <4> QED  BY <1>0, <3>4, <3>6, <4>1, <4>2, <4>3 DEF NamesAreQuotes, Delivering
      <3>8. LinkedCallsHaveLink'
        BY <3>5, <3>6 DEF Common, LinkedCallsHaveLink, Linked
      <3>9. PublishedHasLink'
        BY <1>0, <3>2, <3>6 DEF Common, PublishedHasLink, NamesAreQuotes
      <3> QED  BY <3>7, <3>8, <3>9 DEF Common
    <2>14. ASSUME NEW partial \in BOOLEAN, PutStops(c, partial) PROVE Common'
      <3> DEFINE n == Last'
      <3>1. Puts(c, partial)
        BY <2>14 DEF PutStops
      <3>2. /\ n = Last + 1 /\ n \in 1..MaxQuotes /\ DOMAIN quotes' = 1..n
            /\ \A p \in 1..Last : quotes'[p] = quotes[p]
            /\ quotes'[n].generation = job.generation /\ quotes'[n].delivery = "pending"
            /\ \A p \in 1..n : p = n \/ p \in 1..Last
        BY <1>0, <3>1, PutsOne
      <3>3. /\ keyed' \subseteq keyed \union {n}
            /\ UNCHANGED <<job, checkpoint, links, receipt, call>>
        BY <2>14 DEF PutStops, Last, artifacts
      <3>4. Last' = n
        OBVIOUS
      <3> HIDE DEF n
      <3>5. NamesAreQuotes'
        <4>1. checkpoint'.quote \in 0..n /\ receipt' \in 0..n /\ keyed' \subseteq 1..n
          BY <1>0, <3>2, <3>3 DEF NamesAreQuotes
        <4>2. \A d \in Calls : call'[d].step # "idle" => call'[d].quote \in 1..n
          BY <1>0, <3>2, <3>3 DEF NamesAreQuotes, Delivering
        <4>3. \A q \in 1..n : quotes'[q].generation <= job.generation
          BY <1>0, <3>2, <3>3, DeliveryAssumption DEF NamesAreQuotes, TypeOK
        <4> QED  BY <1>0, <3>3, <3>4, <4>1, <4>2, <4>3 DEF NamesAreQuotes, Delivering
      <3>6. LinkedCallsHaveLink'
        BY <3>3 DEF Common, LinkedCallsHaveLink
      <3>7. PublishedHasLink'
        BY <1>0, <3>2, <3>3 DEF Common, PublishedHasLink, NamesAreQuotes
      <3> QED  BY <3>5, <3>6, <3>7 DEF Common
    <2>4. CASE Fails(c)
      BY <1>0, <2>4, GivesUp, CommonEnds DEF Fails, InFlight
    <2>15. CASE UpdateFails(c)
      BY <1>0, <2>15, GivesUp, CommonEnds DEF UpdateFails, Delivering, artifacts
    <2>5. CASE Guard(c) /\ CanFinalize /\ Advances(c)
      <3>1. \E step \in {"lookup", "upload", "receipt"} :
              Step(c, step) /\ (step \in Linked => call[c].step = "permit")
        BY <2>5 DEF Guard, Linked
      <3> QED  BY <2>5, <3>1, CommonMoves DEF Advances, Guard, artifacts, Steps, Common,
                                              LinkedCallsHaveLink, Linked
    <2>6. CASE Lookup(c)
      BY <2>6, CommonMoves DEF Lookup, Delivering, Steps, Linked, artifacts
    <2>7. CASE Check(c)
      BY <2>7, CommonMoves DEF Check, Delivering, Steps, Linked, artifacts
    <2>8. CASE Upload(c)
      BY <2>8, CommonMoves DEF Upload, Delivering, Steps, Linked
    <2>9. CASE WriteToken(c)
      BY <2>9, CommonMoves DEF WriteToken, Delivering, Steps, Linked
    <2>10. CASE WriteIndex(c)
      BY <2>10, CommonMoves DEF WriteIndex, Delivering, Steps, Linked
    <2>11. CASE SaveArtifactStage(c)
      <3>1. call'[c].step = "permit" /\ call'[c].quote = call[c].quote
             /\ \A d \in Calls : d # c => call'[d] = call[d]
        BY <2>11, Moves DEF SaveArtifactStage, Steps
      <3>2. checkpoint'.quote = call[c].quote /\ call[c].quote \in 1..Last
             /\ call[c].quote \in links
        BY <2>11, CallsQuote DEF SaveArtifactStage, MarkStage, Delivering, Common,
                                 LinkedCallsHaveLink, Linked
      <3>3. NamesAreQuotes'
        BY <1>0, <2>11, <3>1, <3>2 DEF SaveArtifactStage, NamesAreQuotes, Delivering, Last
      <3> QED  BY <2>11, <3>1, <3>2, <3>3 DEF SaveArtifactStage, Common, LinkedCallsHaveLink,
                                              PublishedHasLink, artifacts
    <2>12. CASE WriteReceipt(c)
      <3>1. call'[c].step = "update" /\ call'[c].quote = call[c].quote
             /\ \A d \in Calls : d # c => call'[d] = call[d]
        BY <2>12, Moves DEF WriteReceipt, Steps
      <3>2. receipt' = call[c].quote /\ call[c].quote \in 1..Last /\ call[c].quote \in links
        BY <2>12, CallsQuote DEF WriteReceipt, Delivering, Common, LinkedCallsHaveLink, Linked
      <3>3. job'.generation = job.generation
        BY <2>12 DEF WriteReceipt, TypeOK
      <3>4. NamesAreQuotes'
        BY <1>0, <2>12, <3>1, <3>2, <3>3 DEF WriteReceipt, NamesAreQuotes, Delivering, Last
      <3> QED  BY <2>12, <3>1, <3>2, <3>4 DEF WriteReceipt, Common, LinkedCallsHaveLink,
                                              PublishedHasLink, artifacts
    <2>13. CASE Notes(c)
      <3>1. call[c].quote \in links
        BY <2>13, Delivers, <1>0 DEF Common, LinkedCallsHaveLink, Linked
      <3>2. \A p \in 1..Last : quotes'[p].delivery = "delivered" =>
              quotes[p].delivery = "delivered" \/ p \in links
        BY <1>0, <2>13, <3>1, Delivers DEF OnlyMarks, Last
      <3> QED  BY <1>0, <2>13, <3>2, Delivers, CommonEnds DEF artifacts
    <2> QED  BY <1>1, CallerDoes, <2>1, <2>2, <2>3, <2>4, <2>5, <2>6, <2>7, <2>8, <2>9,
                <2>10, <2>11, <2>12, <2>13, <2>14, <2>15
  <1>2. ASSUME \/ Adopt \/ RetryPartial \/ Claim \/ \E status \in Ended : Stop(status)
        PROVE  Common'
    <2>1. UNCHANGED <<quotes, checkpoint, artifacts, receipt, call>>
      BY <1>2 DEF Adopt, RetryPartial, Claim, Stop
    <2>2. /\ job.generation <= job'.generation
          /\ job'.status \in Delivered \/ job'.fresh => receipt # 0
      BY <1>0, <1>2, DeliveryAssumption
         DEF Adopt, RetryPartial, Claim, Stop, TypeOK, NamesAreQuotes, Delivered, Ended
    <2>3. \A q \in 1..Last : quotes[q].generation \in Nat
      <3>1. \A q \in 1..Len(quotes) : quotes[q] \in Quote
        BY <1>0
      <3> QED  BY <3>1, DeliveryAssumption DEF Quote, Last
    <2>4. job.generation \in Nat /\ job'.generation \in Nat
      BY <1>2, DeliveryAssumption DEF Adopt, RetryPartial, Claim, Stop, TypeOK
    <2>6. UNCHANGED keyed
      BY <1>2 DEF Adopt, RetryPartial, Claim, Stop
    <2>5. NamesAreQuotes'
      BY <1>0, <2>1, <2>2, <2>3, <2>4, <2>6 DEF NamesAreQuotes, Delivering, Last
    <2> QED  BY <2>1, <2>5 DEF Common, LinkedCallsHaveLink, PublishedHasLink, artifacts
  <1>3. CASE Restart
    <2>1. \A c \in Calls : call'[c].step = "idle"
      BY <1>3 DEF Restart, Idle
    <2> QED  BY <1>3, <2>1 DEF Restart, Common, NamesAreQuotes, LinkedCallsHaveLink,
                               PublishedHasLink, Delivering, Last, Linked, artifacts
  <1>4. CASE UNCHANGED vars
    BY <1>4 DEF vars, history, artifacts, Common, NamesAreQuotes, LinkedCallsHaveLink,
                PublishedHasLink, Delivering, Last
  <1> QED  BY <1>1, <1>2, <1>3, <1>4 DEF Next

-----------------------------------------------------------------------------
(* One call at a time *)

LEMMA OnlyCall ==
  ASSUME OneCall, NEW c \in Calls, Delivering(c)
  PROVE  \A d \in Calls : d # c => call[d].step = "idle"
  BY DEF OneCall, Delivering

\* The quotes that are known stay in order as long as only the one that the
\* checkpoint names becomes known.
LEMMA NewestKept ==
  ASSUME TypeOK, Common, Alone, Last' = Last, Named' \in 0..Last, Named' = Named \/ Named = 0,
         \A p \in 1..Last : /\ quotes'[p].generation = quotes[p].generation
                            /\ quotes'[p].partial = quotes[p].partial
                            /\ Known(p)' => Known(p) \/ p = Named'
  PROVE  NamedIsNewest'
  <1>1. CASE Named = 0
    <2>1. \A p \in 1..Last : ~Known(p)
      BY <1>1 DEF Alone, NothingKnown, Known, Named
    <2> QED  BY <2>1 DEF NamedIsNewest, Last, TypeOK
  <1>2. CASE Named # 0
    <2>1. Named' = Named /\ Named \in 1..Last
      BY <1>2 DEF Last, TypeOK
    <2>2. \A p \in 1..Last : Known(p)' => Known(p)
      BY <2>1 DEF Known, Named
    <2> QED  BY <2>1, <2>2 DEF Alone, NamedIsNewest
  <1> QED  BY <1>1, <1>2

\* A call that moves: what is left to show is about the artifacts of its quote.
LEMMA AloneMoves ==
  ASSUME TypeOK, Common, Alone, NEW c \in Calls, NEW step \in Steps, Delivering(c), Step(c, step),
         UNCHANGED quotes, job'.generation = job.generation,
         checkpoint'.quote \in {checkpoint.quote, call[c].quote},
         step \in {"permit", "receipt", "update"} => checkpoint'.quote = call[c].quote,
         receipt' = receipt \/ (receipt' = call[c].quote /\ checkpoint'.quote = call[c].quote),
         \A q \in links' : q \in objects' /\ q \in tokens',
         step \in Unlinked => call[c].quote \notin links',
         step \in {"check", "token", "index"} => call[c].quote \in objects',
         step = "index" => call[c].quote \in tokens',
         CompletedIsFull'
  PROVE  Alone'
  <1>1. /\ call'[c].step = step /\ call'[c].quote = call[c].quote
        /\ call'[c].replay = call[c].replay
        /\ \A d \in Calls : d # c => call'[d].step = "idle"
    BY Moves, OnlyCall DEF Alone
  <1>2. OneCall'
    BY <1>1 DEF OneCall, Delivering
  <1>3. /\ call[c].quote \in 1..Last /\ Last' = Last /\ Last \in Nat
        /\ checkpoint.quote \in 0..Last
    BY CallsQuote DEF Last, Common, NamesAreQuotes, TypeOK
  <1>4. /\ quotes[call[c].quote].delivery # "delivered"
        /\ call[c].quote = Named \/ (Named = 0 /\ call[c].replay)
    BY DEF Alone, CallIsNamed
  <1>5. Named' = Named \/ (Named' = call[c].quote /\ Named = 0)
    BY <1>4 DEF Named
  <1>6. NothingKnown'
    BY <1>3, <1>5 DEF Alone, NothingKnown, Named
  <1>7. CallIsNamed'
    <2>1. \/ call[c].quote = Named'
          \/ Named' = 0 /\ call[c].replay /\ step \notin {"permit", "receipt", "update"}
      BY <1>4, <1>5 DEF Named
    <2> QED  BY <1>1, <1>4, <2>1 DEF CallIsNamed, Delivering
  <1>8. \A p \in 1..Last : Known(p)' => Known(p) \/ p = Named'
    BY DEF Known, Named
  <1>9. NamedIsNewest'
    BY <1>3, <1>5, <1>8, NewestKept DEF Named
  <1>10. LinksAreLive'
    BY <1>1 DEF LinksAreLive, Live, Unlinked
  <1> QED  BY <1>2, <1>6, <1>7, <1>9, <1>10 DEF Alone

\* A call that ends; one whose quote the checkpoint does not name marks nothing.
LEMMA AloneEnds ==
  ASSUME TypeOK, Common, Alone, NEW c \in Calls, Delivering(c), call' = [call EXCEPT ![c] = Idle],
         quotes' \in Seq(Quote), OnlyMarks(call[c].quote),
         checkpoint'.quote \in {checkpoint.quote, call[c].quote},
         call[c].quote # Named => UNCHANGED <<quotes, checkpoint>>,
         UNCHANGED <<job, links, receipt>>,
         \A q \in links' : q \in objects' /\ q \in tokens'
  PROVE  Alone'
  <1>1. \A d \in Calls : call'[d].step = "idle"
    BY Ends, OnlyCall DEF Alone
  <1>2. Last' = Last /\ Last \in Nat /\ Named \in 0..Last /\ Named' = Named
        /\ call[c].quote \in 1..Last
    BY CallsQuote DEF Last, OnlyMarks, TypeOK, Named, Common, NamesAreQuotes
  <1>3. OneCall'
    BY <1>1 DEF OneCall, Delivering
  <1>4. CallIsNamed'
    BY <1>1 DEF CallIsNamed, Delivering
  <1>5. NothingKnown'
    BY <1>2 DEF Alone, NothingKnown
  <1>6. \A p \in 1..Last : p # call[c].quote => quotes'[p].delivery = quotes[p].delivery
    BY DEF OnlyMarks, Last
  <1>7. \A p \in 1..Last : Known(p)' => Known(p) \/ p = Named'
    BY <1>2, <1>6 DEF Known, Named
  <1>8. NamedIsNewest'
    BY <1>2, <1>7, NewestKept DEF OnlyMarks, Last
  <1>9. LinksAreLive'
    BY <1>1 DEF LinksAreLive, Live, Unlinked
  <1>10. CompletedIsFull'
    BY <1>2 DEF Alone, CompletedIsFull, OnlyMarks, Common, NamesAreQuotes, Last
  <1> QED  BY <1>3, <1>4, <1>5, <1>8, <1>9, <1>10 DEF Alone

\* Steps of the relay and restarts leave records and artifacts alone.
LEMMA AloneKept ==
  ASSUME TypeOK, Common, Alone, UNCHANGED <<quotes, checkpoint, artifacts, receipt>>,
         Named = 0 => job'.generation = job.generation,
         call' = call \/ \A c \in Calls : call'[c].step = "idle", CompletedIsFull'
  PROVE  Alone'
  <1>1. OneCall' /\ CallIsNamed'
    BY DEF Alone, OneCall, CallIsNamed, Named, Delivering
  <1>2. NothingKnown' /\ NamedIsNewest'
    BY DEF Alone, NothingKnown, NamedIsNewest, Known, Named, Last
  <1>3. LinksAreLive'
    BY DEF Alone, LinksAreLive, Live, Unlinked, artifacts
  <1> QED  BY <1>1, <1>2, <1>3 DEF Alone

LEMMA AloneUnchanged ==
  ASSUME TypeOK, Common, Alone, UNCHANGED vars
  PROVE  Alone'
  <1>1. UNCHANGED <<job, quotes, checkpoint, artifacts, receipt, call>>
    BY DEF vars, history, artifacts
  <1>2. CompletedIsFull'
    BY <1>1 DEF Alone, CompletedIsFull
  <1> QED  BY <1>1, <1>2, AloneKept

\* A full receipt is the one of the quote that the checkpoint names, which is
\* the one a call delivers.
LEMMA FullIsNamed ==
  ASSUME TypeOK, Common, Alone, receipt # 0, ~quotes[receipt].partial
  PROVE  receipt = Named /\ Named # 0
  <1>1. receipt \in 1..Last /\ Known(receipt)
    BY DEF Common, NamesAreQuotes, Last, TypeOK, Known
  <1> QED  BY <1>1 DEF Alone, NamedIsNewest, NothingKnown

LEMMA AloneStep ==
  ASSUME TypeOK, Common, Alone, ~overlap', [Next]_vars
  PROVE  Alone'
  <1>0. /\ quotes \in Seq(Quote) /\ Last \in Nat /\ DOMAIN quotes = 1..Last
        /\ NamesAreQuotes /\ OneCall /\ NothingKnown /\ CallIsNamed /\ NamedIsNewest
        /\ LinksAreLive /\ CompletedIsFull
    BY DEF TypeOK, Last, Common, Alone
  <1>1. ASSUME NEW c \in Calls, Caller(c) PROVE Alone'
    <2>1. CASE UNCHANGED vars
      BY <2>1, <1>0, AloneUnchanged
    <2>2. CASE ReplayDelivery(c)
      <3>1. PICK q \in Found :
              /\ q \in 1..Last /\ q \in 0..MaxQuotes /\ Starts(c, q, TRUE)
              /\ quotes[q].delivery # "delivered"
        BY <1>0, <2>2, Replays
      <3>2. UNCHANGED <<job, quotes, checkpoint, artifacts, receipt>>
        BY <2>2 DEF ReplayDelivery
      <3>3. /\ call'[c] = [step |-> "guard", quote |-> q, replay |-> TRUE]
            /\ \A d \in Calls : d # c => call'[d] = call[d] /\ ~Delivering(d)
        BY <3>1, CallStarts
      <3>4. \A d \in Calls : d # c => call'[d].step = "idle"
        BY <3>3 DEF Delivering
      <3>5. q = Named \/ Named = 0
        BY <1>0, FoundIsQuote
      <3>6. OneCall' /\ CallIsNamed'
        BY <3>1, <3>2, <3>3, <3>4, <3>5 DEF OneCall, CallIsNamed, Named, Delivering
      <3>7. NothingKnown' /\ NamedIsNewest' /\ CompletedIsFull'
        BY <1>0, <3>2 DEF NothingKnown, NamedIsNewest, CompletedIsFull, Known, Named, Last
      <3>8. LinksAreLive'
        BY <1>0, <3>2, <3>3, <3>4 DEF LinksAreLive, Live, Unlinked, artifacts
      <3> QED  BY <3>6, <3>7, <3>8 DEF Alone
    <2>3. ASSUME NEW partial \in BOOLEAN, NewQuote(c, partial) PROVE Alone'
      <3> DEFINE n == Last'
      <3>1. Puts(c, partial)
        BY <2>3 DEF NewQuote
      <3>2. /\ n = Last + 1 /\ n \in 1..MaxQuotes
            /\ \A p \in 1..Last : quotes'[p] = quotes[p]
            /\ quotes'[n].generation = job.generation /\ quotes'[n].delivery = "pending"
            /\ \A p \in 1..n : p = n \/ p \in 1..Last
            /\ \E q \in Found : Replay(q) = 0
        BY <1>0, <3>1, PutsOne
      <3>3. Starts(c, n, FALSE) /\ checkpoint'.quote = n /\ UNCHANGED <<job, artifacts, receipt>>
        BY <2>3 DEF NewQuote, MarkStage, Last
      <3>4. Last' = n /\ n \in 0..MaxQuotes
        BY <3>2
      <3> HIDE DEF n
      <3>5. /\ call'[c] = [step |-> "guard", quote |-> n, replay |-> FALSE]
            /\ \A d \in Calls : d # c => call'[d] = call[d] /\ ~Delivering(d)
        BY <3>3, <3>4, CallStarts
      <3>6. \A d \in Calls : d # c => call'[d].step = "idle"
        BY <3>5 DEF Delivering
      <3>7. OneCall' /\ CallIsNamed' /\ NothingKnown'
        BY <1>0, <3>2, <3>3, <3>5, <3>6 DEF OneCall, CallIsNamed, NothingKnown, Named, Delivering
      <3>8. \A p \in 1..Last : Known(p) => quotes[p].generation < job.generation /\ quotes[p].partial
        <4>1. CASE Named = 0
          BY <1>0, <4>1 DEF NothingKnown, Known, Named
        <4>2. CASE Named # 0
          <5>1. Named \in 1..Last /\ Replay(Named) = 0
            BY <1>0, <3>2, <4>2, FoundIsQuote DEF NamesAreQuotes, Named
          <5>2. quotes[Named].partial /\ job.generation > quotes[Named].generation
            BY <4>2, <5>1 DEF Replay
          <5>3. \A p \in 1..Len(quotes) : quotes[p] \in Quote
            BY <1>0
          <5>4. \A p \in 1..Last : quotes[p].generation \in Nat
            BY <5>3, DeliveryAssumption DEF Quote, Last
          <5>5. job.generation \in Nat
            BY DeliveryAssumption DEF TypeOK
          <5>6. \A p \in 1..Last : Known(p) /\ p # Named =>
                  quotes[p].generation < quotes[Named].generation /\ quotes[p].partial
            BY <1>0 DEF NamedIsNewest
          <5> QED  BY <5>1, <5>2, <5>4, <5>5, <5>6
        <4> QED  BY <4>1, <4>2
      <3>9. \A p \in 1..Last : Known(p)' => Known(p)
        BY <3>2, <3>3, <3>4, <1>0 DEF Known
      <3>10. NamedIsNewest'
        <4>1. ASSUME NEW q \in 1..n, Known(q)', q # n
              PROVE  q \in 1..Last /\ Known(q) /\ q < n
          BY <1>0, <3>2, <3>9, <4>1
        <4>2. \A q \in 1..n : Known(q)' /\ q # n =>
                q < n /\ quotes'[q].generation < quotes'[n].generation /\ quotes'[q].partial
          BY <3>2, <3>8, <4>1
        <4>3. \A p, q \in 1..n : Known(p)' /\ Known(q)' /\ p < q =>
                quotes'[p].generation < quotes'[q].generation
          <5>1. SUFFICES ASSUME NEW p \in 1..n, NEW q \in 1..n, Known(p)', Known(q)', p < q
                         PROVE  quotes'[p].generation < quotes'[q].generation
            OBVIOUS
          <5>2. CASE q = n
            BY <1>0, <3>2, <4>2, <5>1, <5>2
          <5>3. CASE q # n
            <6>1. q \in 1..Last /\ Known(q) /\ p \in 1..Last /\ p # n
              BY <1>0, <3>2, <4>1, <5>1, <5>3
            <6> QED  BY <1>0, <3>2, <4>1, <5>1, <6>1 DEF NamedIsNewest
          <5> QED  BY <5>2, <5>3
        <4> QED  BY <3>3, <3>4, <4>2, <4>3 DEF NamedIsNewest, Named
      <3>11. LinksAreLive'
        BY <1>0, <3>3, <3>5, <3>6 DEF LinksAreLive, Live, Unlinked, artifacts
      <3>12. CompletedIsFull'
        BY <1>0, <3>2, <3>3 DEF CompletedIsFull, NamesAreQuotes
      <3> QED  BY <3>7, <3>10, <3>11, <3>12 DEF Alone
    <2>14. ASSUME NEW partial \in BOOLEAN, PutStops(c, partial) PROVE Alone'
      <3> DEFINE n == Last'
      <3>1. Puts(c, partial)
        BY <2>14 DEF PutStops
      <3>2. /\ n = Last + 1 /\ \A p \in 1..Last : quotes'[p] = quotes[p]
            /\ quotes'[n].delivery = "pending"
            /\ \A p \in 1..n : p = n \/ p \in 1..Last
        BY <1>0, <3>1, PutsOne
      <3>3. UNCHANGED <<job, checkpoint, artifacts, receipt, call>>
        BY <2>14 DEF PutStops
      <3>4. Last' = n
        OBVIOUS
      <3> HIDE DEF n
      <3>5. OneCall' /\ CallIsNamed'
        BY <1>0, <3>2, <3>3 DEF OneCall, CallIsNamed, Named, Delivering, NamesAreQuotes
      <3>6. NothingKnown'
        BY <1>0, <3>2, <3>3, <3>4 DEF NothingKnown, Named
      <3>7. \A p \in 1..n : Known(p)' => p \in 1..Last /\ Known(p)
        BY <1>0, <3>2, <3>3 DEF Known, NamesAreQuotes
      <3>8. NamedIsNewest'
        <4>1. \A q \in 1..n : Known(q)' /\ q # Named =>
                q < Named /\ quotes'[q].generation < quotes'[Named].generation /\ quotes'[q].partial
          <5>1. SUFFICES ASSUME NEW q \in 1..n, Known(q)', q # Named
                PROVE  q < Named /\ quotes'[q].generation < quotes'[Named].generation
                       /\ quotes'[q].partial
            OBVIOUS
          <5>2. q \in 1..Last /\ Known(q)
            BY <3>7, <5>1
          <5>3. Named \in 1..Last
            BY <1>0, <5>2 DEF NothingKnown, Known, Named, NamesAreQuotes
          <5> QED  BY <1>0, <3>2, <5>1, <5>2, <5>3 DEF NamedIsNewest
        <4>2. \A p, q \in 1..n : Known(p)' /\ Known(q)' /\ p < q =>
                quotes'[p].generation < quotes'[q].generation
          BY <1>0, <3>2, <3>7 DEF NamedIsNewest
        <4> QED  BY <3>3, <3>4, <4>1, <4>2 DEF NamedIsNewest, Named
      <3>9. LinksAreLive' /\ CompletedIsFull'
        BY <1>0, <3>2, <3>3 DEF LinksAreLive, Live, artifacts, CompletedIsFull, NamesAreQuotes
      <3> QED  BY <3>5, <3>6, <3>8, <3>9 DEF Alone
    <2>15. ASSUME Delivering(c), Gives(c)
          PROVE  /\ call' = [call EXCEPT ![c] = Idle] /\ quotes' \in Seq(Quote)
                 /\ OnlyMarks(call[c].quote)
                 /\ checkpoint'.quote \in {checkpoint.quote, call[c].quote}
                 /\ call[c].quote # Named => UNCHANGED <<quotes, checkpoint>>
      BY <1>0, <2>15, GivesUp DEF CallIsNamed
    <2>4. CASE Fails(c)
      <3>1. \A q \in links' : q \in objects' /\ q \in tokens'
        BY <1>0, <2>4 DEF Fails, LinksAreLive, Live, Unlinked
      <3> QED  BY <2>4, <2>15, <3>1, AloneEnds DEF Fails, InFlight
    <2>16. CASE UpdateFails(c)
      BY <1>0, <2>15, <2>16, AloneEnds DEF UpdateFails, Delivering, artifacts, LinksAreLive, Live
    <2>5. CASE Guard(c) /\ CanFinalize /\ Advances(c)
      <3>1. \E step \in {"lookup", "upload", "receipt"} :
              /\ Step(c, step) /\ (step \in Unlinked => call[c].step \in Unlinked)
              /\ step = "receipt" => call[c].quote = Named
        BY <1>0, <2>5 DEF Guard, Unlinked, CallIsNamed, Delivering
      <3>2. PICK step \in {"lookup", "upload", "receipt"} :
              /\ Step(c, step) /\ (step \in Unlinked => call[c].step \in Unlinked)
              /\ step = "receipt" => call[c].quote = Named
        BY <3>1
      <3>3. UNCHANGED <<job, quotes, checkpoint, artifacts, receipt>> /\ Delivering(c)
        BY <2>5 DEF Guard, Advances
      <3> QED  BY <1>0, <3>2, <3>3, AloneMoves
                  DEF Steps, LinksAreLive, Live, CompletedIsFull, artifacts, Named
    <2>6. CASE Lookup(c)
      BY <1>0, <2>6, AloneMoves DEF Lookup, Delivering, Steps, Unlinked, artifacts,
                                    LinksAreLive, Live, CompletedIsFull
    <2>7. CASE Check(c)
      BY <1>0, <2>7, AloneMoves DEF Check, Delivering, Steps, Unlinked, artifacts,
                                    LinksAreLive, Live, CompletedIsFull
    <2>8. CASE Upload(c)
      BY <1>0, <2>8, AloneMoves DEF Upload, Delivering, Steps, Unlinked,
                                    LinksAreLive, Live, CompletedIsFull
    <2>9. CASE WriteToken(c)
      BY <1>0, <2>9, AloneMoves DEF WriteToken, Delivering, Steps, Unlinked,
                                    LinksAreLive, Live, CompletedIsFull
    <2>10. CASE WriteIndex(c)
      BY <1>0, <2>10, AloneMoves DEF WriteIndex, Delivering, Steps, Unlinked,
                                     LinksAreLive, Live, CompletedIsFull
    <2>11. CASE SaveArtifactStage(c)
      BY <1>0, <2>11, AloneMoves DEF SaveArtifactStage, MarkStage, Delivering, Steps, Unlinked,
                                     artifacts, LinksAreLive, Live, CompletedIsFull
    <2>12. CASE WriteReceipt(c)
      <3>1. Delivering(c) /\ Step(c, "update") /\ job'.status = job.status
        BY <2>12 DEF WriteReceipt, Delivering, TypeOK
      <3>2. receipt' = call[c].quote /\ call[c].quote = Named /\ UNCHANGED checkpoint
        BY <1>0, <2>12, <3>1 DEF WriteReceipt, CallIsNamed
      <3>3. CompletedIsFull'
        BY <1>0, <2>12, <3>1, <3>2, FullIsNamed DEF WriteReceipt, CompletedIsFull
      <3>4. job'.generation = job.generation
        BY <2>12 DEF WriteReceipt, TypeOK
      <3> QED  BY <1>0, <2>12, <3>1, <3>2, <3>3, <3>4, AloneMoves
                  DEF WriteReceipt, Steps, Unlinked, artifacts, LinksAreLive, Live, Named
    <2>13. CASE Notes(c)
      <3>1. /\ call[c].quote = Named /\ \A q \in links' : q \in objects' /\ q \in tokens'
            /\ UNCHANGED <<job, links, receipt>>
        BY <1>0, <2>13, Delivers DEF artifacts, LinksAreLive, Live, CallIsNamed
      <3> QED  BY <1>0, <2>13, <3>1, Delivers, AloneEnds
    <2> QED  BY <1>1, CallerDoes, <2>1, <2>2, <2>3, <2>4, <2>5, <2>6, <2>7, <2>8, <2>9,
                <2>10, <2>11, <2>12, <2>13, <2>14, <2>16
  <1>2. ASSUME \/ Adopt \/ RetryPartial \/ Claim \/ \E status \in Ended : Stop(status)
        PROVE  Alone'
    <2>1. UNCHANGED <<quotes, checkpoint, artifacts, receipt, call>>
      BY <1>2 DEF Adopt, RetryPartial, Claim, Stop
    <2>2. CompletedIsFull'
      BY <1>0, <1>2 DEF Adopt, RetryPartial, Claim, Stop, TypeOK, CompletedIsFull
    <2>3. Named = 0 => job'.generation = job.generation
      BY <1>0, <1>2 DEF Adopt, RetryPartial, Claim, Stop, TypeOK, NothingKnown, NamesAreQuotes,
                        Delivered
    <2> QED  BY <2>1, <2>2, <2>3, AloneKept
  <1>3. CASE Restart
    <2>1. \A c \in Calls : call'[c].step = "idle"
      BY <1>3 DEF Restart, Idle
    <2> QED  BY <1>0, <1>3, <2>1, AloneKept DEF Restart, CompletedIsFull
  <1>4. CASE UNCHANGED vars
    BY <1>4, AloneUnchanged
  <1> QED  BY <1>1, <1>2, <1>3, <1>4 DEF Next

-----------------------------------------------------------------------------
(* ... and every receipt noted in its record *)

\* A receipt of the job's generation is the one of the quote the checkpoint names.
LEMMA PresentIsNamed ==
  ASSUME TypeOK, Common, Alone, receipt # 0, quotes[receipt].generation = job.generation
  PROVE  receipt = Named /\ Named # 0
  <1>1. receipt \in 1..Last /\ Known(receipt) /\ Last \in Nat
    BY DEF Common, NamesAreQuotes, Last, TypeOK, Known
  <1>2. Named \in 1..Last
    BY DEF Common, NamesAreQuotes, Last, TypeOK, Alone, NothingKnown, Named
  <1>3. \A p \in 1..Len(quotes) : quotes[p] \in Quote
    BY DEF TypeOK
  <1>4. quotes[receipt].generation \in Nat /\ quotes[Named].generation \in Nat
    BY <1>1, <1>2, <1>3, DeliveryAssumption DEF Quote, Last
  <1>5. quotes[Named].generation <= quotes[receipt].generation
    BY <1>2 DEF Common, NamesAreQuotes
  <1> QED  BY <1>1, <1>2, <1>4, <1>5 DEF Alone, NamedIsNewest

\* Outside a delivery a receipt the job accepts is delivered.
LEMMA FreshIsDelivered ==
  ASSUME TypeOK, Common, Alone, Present, ReceiptIsDelivered,
         \A c \in Calls : ~Delivering(c), job.fresh \/ job.status = "partial"
  PROVE  /\ receipt = Named /\ Named # 0 /\ quotes[Named].delivery = "delivered"
         /\ quotes[Named].generation = job.generation
  <1>1. receipt # 0 /\ quotes[receipt].generation = job.generation
    BY DEF Common, NamesAreQuotes, Delivered, Present
  <1>2. quotes[receipt].delivery = "delivered"
    BY <1>1 DEF ReceiptIsDelivered, Delivering
  <1> QED  BY <1>1, <1>2, PresentIsNamed

Served == Present /\ ReceiptIsDelivered

\* A call in flight that moves and is not yet at its receipt's update.
LEMMA ServedMoves ==
  ASSUME TypeOK, Served, NEW c \in Calls, NEW step \in Steps \ {"update"}, InFlight(c),
         Step(c, step), UNCHANGED <<job, quotes, receipt>>,
         checkpoint'.quote \in {checkpoint.quote, call[c].quote}
  PROVE  Served'
  <1>1. /\ call'[c].step = step /\ call'[c].quote = call[c].quote
        /\ \A d \in Calls : d # c => call'[d] = call[d]
    BY Moves
  <1>2. Present'
    BY <1>1 DEF Served, Present, InFlight, Delivering, Named
  <1>3. ReceiptIsDelivered'
    BY <1>1 DEF Served, ReceiptIsDelivered, InFlight
  <1> QED  BY <1>2, <1>3 DEF Served

LEMMA ServedUnchanged ==
  ASSUME Served, UNCHANGED vars
  PROVE  Served'
  BY DEF vars, history, artifacts, Served, Present, ReceiptIsDelivered, Delivering, Named

LEMMA ServedStep ==
  ASSUME TypeOK, Common, Alone, Served, ~overlap', ~unmarked', [Next]_vars
  PROVE  Served'
  <1>0. /\ quotes \in Seq(Quote) /\ Last \in Nat /\ NamesAreQuotes /\ NothingKnown
        /\ CallIsNamed /\ OneCall /\ Named \in 0..Last
        /\ Present /\ ReceiptIsDelivered /\ job.generation \in Nat
    BY DeliveryAssumption DEF TypeOK, Last, Common, Alone, Served, NamesAreQuotes, Named
  <1>9. \A p \in 1..Last : quotes[p].generation \in Nat
    <2>1. \A p \in 1..Len(quotes) : quotes[p] \in Quote
      BY <1>0
    <2> QED  BY <2>1, DeliveryAssumption DEF Quote, Last
  <1>1. ASSUME NEW c \in Calls, Caller(c) PROVE Served'
    <2>1. CASE UNCHANGED vars
      BY <2>1, ServedUnchanged
    <2>2. CASE ReplayDelivery(c)
      <3>1. PICK q \in Found :
              /\ q \in 1..Last /\ q \in 0..MaxQuotes /\ Replay(q) = q /\ Starts(c, q, TRUE)
              /\ quotes[q].delivery # "delivered"
        BY <1>0, <2>2, Replays
      <3>2. UNCHANGED <<job, quotes, checkpoint, receipt>> /\ ~Delivering(c)
        BY <2>2 DEF ReplayDelivery
      <3>3. /\ call'[c] = [step |-> "guard", quote |-> q, replay |-> TRUE]
            /\ \A d \in Calls : d # c => call'[d] = call[d] /\ ~Delivering(d)
        BY <3>1, CallStarts
      <3>4. (Named # 0 => q = Named)
        BY <1>0, FoundIsQuote
      <3>5. ~job.fresh /\ job.status # "partial"
        BY <1>0, <3>1, <3>2, <3>3, <3>4, FreshIsDelivered
      <3>6. quotes[q].generation = job.generation
        <4>1. CASE Named = 0
          BY <1>0, <1>9, <3>1, <4>1 DEF NothingKnown, NamesAreQuotes
        <4>2. CASE Named # 0 /\ quotes[q].partial
          <5>1. ~(job.generation > quotes[q].generation)
            BY <1>0, <3>1, <4>2 DEF Replay
          <5> QED  BY <1>0, <1>9, <3>1, <5>1 DEF NamesAreQuotes
        <4>3. CASE Named # 0 /\ ~quotes[q].partial
          BY <1>0, <3>4, <4>3 DEF Present
        <4> QED  BY <4>1, <4>2, <4>3
      <3>7. Present'
        BY <1>0, <3>2, <3>3, <3>5, <3>6 DEF Present, Delivering, Named
      <3>8. ReceiptIsDelivered'
        BY <1>0, <3>2, <3>3 DEF ReceiptIsDelivered, Delivering
      <3> QED  BY <3>7, <3>8 DEF Served
    <2>3. ASSUME NEW partial \in BOOLEAN, NewQuote(c, partial) PROVE Served'
      <3> DEFINE n == Last'
      <3>1. Puts(c, partial)
        BY <2>3 DEF NewQuote
      <3>2. /\ n = Last + 1 /\ n \in 1..MaxQuotes
            /\ \A p \in 1..Last : quotes'[p] = quotes[p]
            /\ quotes'[n].generation = job.generation
            /\ ~Delivering(c) /\ \E q \in Found : Replay(q) = 0
        BY <1>0, <3>1, PutsOne
      <3>3. Starts(c, n, FALSE) /\ checkpoint'.quote = n /\ UNCHANGED <<job, receipt>>
        BY <2>3 DEF NewQuote, MarkStage, Last
      <3>4. Last' = n /\ n \in 0..MaxQuotes
        BY <3>2
      <3> HIDE DEF n
      <3>5. /\ call'[c] = [step |-> "guard", quote |-> n, replay |-> FALSE]
            /\ \A d \in Calls : d # c => call'[d] = call[d] /\ ~Delivering(d)
        BY <3>3, <3>4, CallStarts
      <3>7. ~job.fresh /\ job.status # "partial"
        <4>1. SUFFICES ASSUME job.fresh \/ job.status = "partial" PROVE FALSE
          OBVIOUS
        <4>2. Named # 0 /\ quotes[Named].generation = job.generation
          BY <1>0, <3>2, <3>5, <4>1, FreshIsDelivered DEF Served
        <4>3. Replay(Named) = 0
          BY <1>0, <3>2, <4>2, FoundIsQuote
        <4>4. job.generation > quotes[Named].generation
          BY <4>2, <4>3 DEF Replay
        <4> QED  BY <1>0, <4>2, <4>4
      <3>8. Present'
        BY <1>0, <3>2, <3>3, <3>5, <3>7 DEF Present, Delivering, Named
      <3>9. ReceiptIsDelivered'
        BY <1>0, <3>2, <3>3, <3>5 DEF ReceiptIsDelivered, Delivering, NamesAreQuotes
      <3> QED  BY <3>8, <3>9 DEF Served
    <2>10. ASSUME NEW partial \in BOOLEAN, PutStops(c, partial) PROVE Served'
      <3>1. Puts(c, partial) /\ UNCHANGED <<job, checkpoint, receipt, call>>
        BY <2>10 DEF PutStops
      <3>2. \A p \in 1..Last : quotes'[p] = quotes[p]
        BY <1>0, <3>1, PutsOne
      <3>3. (receipt # 0 => receipt \in 1..Last) /\ (Named # 0 => Named \in 1..Last)
            /\ \A d \in Calls : Delivering(d) => call[d].quote \in 1..Last
        BY <1>0 DEF NamesAreQuotes
      <3>4. job.fresh \/ job.status = "partial" => receipt # 0
        BY <1>0 DEF NamesAreQuotes, Delivered
      <3>5. Present'
        BY <1>0, <3>1, <3>2, <3>3, <3>4 DEF Present, Delivering, Named
      <3>6. ReceiptIsDelivered'
        BY <1>0, <3>1, <3>2, <3>3 DEF ReceiptIsDelivered
      <3> QED  BY <3>5, <3>6 DEF Served
    <2>11. CASE UpdateFails(c)
      BY <2>11 DEF UpdateFails
    <2>4. CASE Fails(c)
      <3>1. /\ call' = [call EXCEPT ![c] = Idle] /\ OnlyMarks(call[c].quote)
            /\ Delivering(c) /\ call[c].step # "update" /\ Named' = Named
        BY <1>0, <2>4, GivesUp DEF Fails, InFlight, CallIsNamed, Named
      <3>2. \A d \in Calls : call'[d].step = "idle"
        BY <1>0, <3>1, Ends, OnlyCall
      <3>3. receipt # 0 => quotes[receipt].delivery = "delivered" /\ receipt # call[c].quote
        BY <1>0, <3>1, OnlyCall DEF ReceiptIsDelivered, CallIsNamed
      <3>4. receipt # 0 => receipt \in 1..Last
        BY <1>0 DEF NamesAreQuotes
      <3>5. /\ UNCHANGED <<job, receipt>> /\ Last' = Last
            /\ receipt # 0 => quotes'[receipt].generation = quotes[receipt].generation
                              /\ quotes'[receipt].partial = quotes[receipt].partial
                              /\ quotes'[receipt].delivery = quotes[receipt].delivery
            /\ Named # 0 => quotes'[Named].generation = quotes[Named].generation
                            /\ quotes'[Named].partial = quotes[Named].partial
        BY <1>0, <2>4, <3>1, <3>3, <3>4 DEF Fails, OnlyMarks, Last
      <3>6. job.fresh \/ job.status = "partial" => receipt # 0
        BY <1>0 DEF NamesAreQuotes, Delivered
      <3>7. Present'
        BY <1>0, <3>1, <3>2, <3>5, <3>6 DEF Present, Delivering
      <3>8. ReceiptIsDelivered'
        BY <3>3, <3>5 DEF ReceiptIsDelivered
      <3> QED  BY <3>7, <3>8 DEF Served
    <2>5. CASE Guard(c) /\ CanFinalize /\ Advances(c)
      <3>1. PICK step \in {"lookup", "upload", "receipt"} : Step(c, step)
        BY <2>5 DEF Guard
      <3>2. InFlight(c) /\ UNCHANGED <<job, quotes, checkpoint, receipt>>
        BY <2>5 DEF Guard, Advances, InFlight
      <3> QED  BY <3>1, <3>2, ServedMoves DEF Steps
    <2>6. CASE Lookup(c) \/ Check(c)
      <3>1. PICK step \in {"saved", "render", "token", "remove"} : Step(c, step)
        BY <2>6 DEF Lookup, Check
      <3>2. InFlight(c) /\ UNCHANGED <<job, quotes, checkpoint, receipt>>
        BY <2>6 DEF Lookup, Check, InFlight, Delivering
      <3> QED  BY <3>1, <3>2, ServedMoves DEF Steps
    <2>7. CASE Upload(c) \/ WriteToken(c) \/ WriteIndex(c) \/ SaveArtifactStage(c)
      <3>1. PICK step \in {"check", "index", "saved", "permit"} : Step(c, step)
        BY <2>7 DEF Upload, WriteToken, WriteIndex, SaveArtifactStage
      <3>2. /\ InFlight(c) /\ UNCHANGED <<job, quotes, receipt>>
            /\ checkpoint'.quote \in {checkpoint.quote, call[c].quote}
        BY <2>7 DEF Upload, WriteToken, WriteIndex, SaveArtifactStage, MarkStage, InFlight,
                    Delivering
      <3> QED  BY <3>1, <3>2, ServedMoves DEF Steps
    <2>8. CASE WriteReceipt(c)
      <3>1. /\ Delivering(c) /\ call[c].step # "update" /\ Step(c, "update") /\ UNCHANGED <<quotes, checkpoint>>
            /\ job'.status = job.status /\ job'.generation = job.generation
        BY <2>8 DEF WriteReceipt, Delivering, TypeOK
      <3>2. /\ call'[c].step = "update" /\ call'[c].quote = call[c].quote
            /\ \A d \in Calls : d # c => call'[d].step = "idle"
        BY <1>0, <3>1, Moves, OnlyCall DEF Steps
      <3>3. receipt' = Named /\ Named # 0 /\ quotes[Named].generation = job.generation
        BY <1>0, <2>8, <3>1, CallsQuote DEF WriteReceipt, CallIsNamed, Present
      <3>4. job.status = "partial" => quotes[Named].partial
        BY <1>0, PresentIsNamed DEF Present, NamesAreQuotes, Delivered
      <3>5. Present'
        BY <1>0, <3>1, <3>2, <3>3, <3>4 DEF Present, Delivering, Named
      <3>6. ReceiptIsDelivered'
        BY <2>8, <3>2 DEF ReceiptIsDelivered, WriteReceipt
      <3> QED  BY <3>5, <3>6 DEF Served
    <2>9. CASE Notes(c)
      <3>1. /\ call[c].step = "update" /\ Delivering(c)
            /\ call' = [call EXCEPT ![c] = Idle] /\ OnlyMarks(call[c].quote)
            /\ quotes'[call[c].quote].delivery = "delivered"
            /\ UNCHANGED <<job, receipt>> /\ Named' = Named
        BY <1>0, <2>9, Delivers DEF CallIsNamed, Named
      <3>2. \A d \in Calls : call'[d].step = "idle"
        BY <1>0, <3>1, Ends, OnlyCall
      <3>3. receipt # 0 => quotes[receipt].delivery = "delivered" \/ receipt = call[c].quote
        BY <1>0, <3>1, OnlyCall DEF ReceiptIsDelivered
      <3>4. receipt # 0 => receipt \in 1..Last
        BY <1>0 DEF NamesAreQuotes
      <3>5. /\ Last' = Last
            /\ receipt # 0 => quotes'[receipt].generation = quotes[receipt].generation
                              /\ quotes'[receipt].partial = quotes[receipt].partial
                              /\ quotes'[receipt].delivery = "delivered"
            /\ Named # 0 => quotes'[Named].generation = quotes[Named].generation
                            /\ quotes'[Named].partial = quotes[Named].partial
        BY <1>0, <3>1, <3>3, <3>4 DEF OnlyMarks, Last
      <3>6. job.fresh \/ job.status = "partial" => receipt # 0
        BY <1>0 DEF NamesAreQuotes, Delivered
      <3>7. Present'
        BY <1>0, <3>1, <3>2, <3>5, <3>6 DEF Present, Delivering
      <3>8. ReceiptIsDelivered'
        BY <3>1, <3>5 DEF ReceiptIsDelivered
      <3> QED  BY <3>7, <3>8 DEF Served
    <2> QED  BY <1>1, CallerDoes, <2>1, <2>2, <2>3, <2>4, <2>5, <2>6, <2>7, <2>8, <2>9,
                <2>10, <2>11
  <1>2. ASSUME Adopt \/ Claim \/ \E status \in Ended : Stop(status)
        PROVE  Served'
    <2>1. /\ UNCHANGED <<quotes, checkpoint, receipt, call>>
          /\ job'.generation = job.generation /\ job'.fresh = job.fresh
      BY <1>2 DEF Adopt, Claim, Stop, TypeOK
    <2>2. job'.status = "partial" => job.fresh /\ quotes[receipt].partial
      BY <1>2 DEF Adopt, Claim, Stop, TypeOK, Delivered
    <2>3. Present'
      BY <1>0, <2>1, <2>2 DEF Present, Delivering, Named
    <2> QED  BY <1>0, <2>1, <2>3 DEF Served, ReceiptIsDelivered
  <1>3. CASE RetryPartial
    <2>1. /\ UNCHANGED <<quotes, checkpoint, receipt, call>> /\ job.status = "partial"
          /\ job'.status = "queued" /\ ~job'.fresh
      BY <1>3 DEF RetryPartial
    <2>2. receipt # 0 /\ receipt = Named /\ quotes[Named].partial
      BY <1>0, <2>1, PresentIsNamed DEF Present, NamesAreQuotes, Delivered
    <2>3. \A c \in Calls : Delivering(c) => call[c].step = "update"
      <3>1. SUFFICES ASSUME NEW c \in Calls, Delivering(c), call[c].step # "update" PROVE FALSE
        OBVIOUS
      <3>2. quotes[Named].delivery # "delivered" /\ \A d \in Calls : call[d].step # "update"
        BY <1>0, <2>2, <3>1, OnlyCall DEF CallIsNamed
      <3> QED  BY <1>0, <2>2, <3>2 DEF ReceiptIsDelivered
    <2>4. Present'
      BY <2>1, <2>2, <2>3 DEF Present, Delivering, Named
    <2> QED  BY <1>0, <2>1, <2>4 DEF Served, ReceiptIsDelivered
  <1>4. CASE Restart
    <2>1. UNCHANGED <<job, quotes, checkpoint, receipt>> /\ \A c \in Calls : call[c].step # "update"
      BY <1>4 DEF Restart
    <2>2. \A c \in Calls : call'[c].step = "idle"
      BY <1>4 DEF Restart, Idle
    <2>3. Present' /\ ReceiptIsDelivered'
      BY <1>0, <2>1, <2>2 DEF Present, ReceiptIsDelivered, Delivering, Named
    <2> QED  BY <2>3 DEF Served
  <1>5. CASE UNCHANGED vars
    BY <1>5, ServedUnchanged
  <1> QED  BY <1>1, <1>2, <1>3, <1>4, <1>5 DEF Next

-----------------------------------------------------------------------------
(* The theorems *)

LEMMA InitIInv == Init => IInv
  <1> SUFFICES ASSUME Init PROVE IInv
    OBVIOUS
  <1>1. TypeOK /\ Last = 0 /\ \A c \in Calls : call[c].step = "idle"
    BY InitTypeOK DEF Init, Idle, Last
  <1>2. job \in [status : {"processing", "stale"}, generation : {0}, fresh : {FALSE}]
    BY DEF Init
  <1>3. NamesAreQuotes
    <2>1. checkpoint.quote = 0 /\ receipt = 0 /\ keyed = {}
      BY DEF Init
    <2>2. job.status \notin Delivered /\ ~job.fresh
      BY <1>2 DEF Delivered
    <2> QED  BY <1>1, <2>1, <2>2 DEF NamesAreQuotes, Delivering
  <1>6. LinkedCallsHaveLink /\ PublishedHasLink
    BY <1>1 DEF Init, LinkedCallsHaveLink, PublishedHasLink, Linked
  <1>4. Alone
    BY <1>1, <1>2 DEF Init, Alone, OneCall, NothingKnown, CallIsNamed, NamedIsNewest,
                      LinksAreLive, CompletedIsFull, Delivering, Unlinked
  <1>5. ReceiptIsDelivered /\ Present
    BY <1>1, <1>2 DEF Init, ReceiptIsDelivered, Present, Delivering, Named
  <1> QED  BY <1>1, <1>3, <1>4, <1>5, <1>6 DEF IInv

\* The history only grows.
LEMMA HistoryGrows ==
  ASSUME TypeOK, [Next]_vars
  PROVE  (overlap => overlap') /\ (unmarked => unmarked')
  <1>1. ASSUME NEW c \in Calls, Caller(c) PROVE (overlap => overlap') /\ (unmarked => unmarked')
    <2>1. \/ UNCHANGED history
          \/ overlap' = (overlap \/ \E d \in Calls \ {c} : Delivering(d)) /\ UNCHANGED unmarked
          \/ unmarked' = TRUE /\ UNCHANGED overlap
      BY <1>1 DEF Caller, ReturnSaved, ReplayDelivery, NewQuote, PutStops, Starts, Guard, Lookup,
           Upload, Check, Remove, WriteToken, WriteIndex, SaveArtifactStage, WriteReceipt,
           MarkDelivered, MarkRecordOnly, WriteFails, UpdateFails, vars
    <2>2. CASE UNCHANGED history \/ (unmarked' = TRUE /\ UNCHANGED overlap)
      BY <2>2 DEF history
    <2>3. CASE overlap' = (overlap \/ \E d \in Calls \ {c} : Delivering(d)) /\ UNCHANGED unmarked
      BY <2>3, Zenon
    <2> QED  BY <2>1, <2>2, <2>3
  <1>2. CASE Adopt \/ RetryPartial \/ Claim \/ \E status \in Ended : Stop(status)
    BY <1>2 DEF Adopt, RetryPartial, Claim, Stop, history
  <1>3. CASE Restart
    <2>1. UNCHANGED overlap /\ unmarked' = (unmarked \/ \E c \in Calls : call[c].step = "update")
      BY <1>3 DEF Restart
    <2> QED  BY <2>1, Zenon
  <1> QED  BY <1>1, <1>2, <1>3 DEF Next, vars, history

LEMMA IInvStep == IInv /\ [Next]_vars => IInv'
  <1> SUFFICES ASSUME IInv, [Next]_vars PROVE IInv'
    OBVIOUS
  <1>1. TypeOK /\ Common
    BY DEF IInv, Common
  <1>2. TypeOK' /\ Common'
    BY <1>1, TypeOKStep, CommonStep DEF Common
  <1>3. (overlap => overlap') /\ (unmarked => unmarked')
    BY <1>1, HistoryGrows
  <1>4. ~overlap' => Alone'
    BY <1>1, <1>3, AloneStep DEF IInv
  <1>5. ~overlap' /\ ~unmarked' => Served'
    BY <1>1, <1>3, ServedStep DEF IInv, Served
  <1> QED  BY <1>2, <1>4, <1>5 DEF IInv, Common, Served

LEMMA Inductive == Spec => []IInv
  <1>1. Init => IInv
    BY InitIInv
  <1>2. IInv /\ [Next]_vars => IInv'
    BY IInvStep
  <1> QED  BY <1>1, <1>2, PTL DEF Spec

\* Records, checkpoint, artifacts, receipt and calls keep their types, for any
\* number of calls.
THEOREM TypeCorrect == Spec => []TypeOK
  <1>1. IInv => TypeOK
    BY DEF IInv
  <1> QED  BY <1>1, Inductive, PTL

\* deliverRecord never publishes a quote ahead of its index manifest, also when
\* calls overlap and the server restarts.
THEOREM PublishedIsLinked == Spec => []PublishedHasLink
  <1>1. IInv => PublishedHasLink
    BY DEF IInv
  <1> QED  BY <1>1, Inductive, PTL

\* With one call at a time the link of a delivered job resolves to a workbook,
\* over every restart, stop, retry and failed write.
THEOREM LinkResolves == Spec => []LinkWorksAlone
  <1>1. IInv => LinkWorksAlone
    <2> SUFFICES ASSUME IInv, ~overlap, job.status \in Delivered PROVE receipt # 0 /\ Live(receipt)
      BY DEF LinkWorksAlone, LinkWorks
    <2>1. receipt # 0 /\ receipt \in DOMAIN quotes
      BY DEF IInv, TypeOK, NamesAreQuotes, Last
    <2>2. receipt \in links
      BY <2>1 DEF IInv, PublishedHasLink
    <2> QED  BY <2>1, <2>2 DEF IInv, Alone, LinksAreLive
  <1> QED  BY <1>1, Inductive, PTL

\* With one call at a time the quotes that the checkpoint, a receipt or a mark
\* shows are of different generations, wherever put(), a delivery or its error
\* handler stops.
THEOREM OneQuoteEach == Spec => []OneQuotePerGeneration
  <1>1. IInv => OneQuotePerGeneration
    <2> SUFFICES ASSUME IInv, ~overlap, NEW i \in DOMAIN quotes, NEW j \in DOMAIN quotes, i # j,
                        Known(i), Known(j)
                 PROVE  quotes[i].generation # quotes[j].generation
      BY DEF OneQuotePerGeneration
    <2>1. i \in 1..Last /\ j \in 1..Last /\ Last \in Nat /\ (i < j \/ j < i)
      BY DEF IInv, TypeOK, Last
    <2>2. \A p \in 1..Len(quotes) : quotes[p] \in Quote
      BY DEF IInv, TypeOK
    <2>3. quotes[i].generation \in Nat /\ quotes[j].generation \in Nat
      BY <2>1, <2>2, DeliveryAssumption DEF Quote, Last
    <2> QED  BY <2>1, <2>3 DEF IInv, Alone, NamedIsNewest
  <1> QED  BY <1>1, Inductive, PTL

\* A receipt the job still accepts answers the generation it is in, with one
\* call at a time and if every receipt was noted in its record: no call that
\* began before a partial retry writes its receipt after it.
THEOREM ReceiptIsPresent == Spec => []ReceiptOfGeneration
  <1>1. IInv => ReceiptOfGeneration
    BY DEF IInv, Present, ReceiptOfGeneration
  <1> QED  BY <1>1, Inductive, PTL

\* With one call at a time the receipt of a completed job is never replaced.
THEOREM FinalReceiptKept == Spec => FinalReceiptStands
  <1>1. ASSUME IInv, [Next]_vars, job.status = "completed", ~overlap
        PROVE  receipt' = receipt
    <2>1. TypeOK /\ Common /\ Alone /\ NamesAreQuotes
      BY <1>1 DEF IInv, Common
    <2>2. ASSUME NEW c \in Calls, WriteReceipt(c) PROVE receipt' = receipt
      <3>1. receipt' = call[c].quote /\ Delivering(c)
        BY <2>2 DEF WriteReceipt, Delivering
      <3>2. call[c].quote = Named
        BY <2>1, <2>2, <3>1 DEF Alone, CallIsNamed, WriteReceipt
      <3>3. receipt # 0 /\ ~quotes[receipt].partial
        BY <1>1, <2>1 DEF Alone, CompletedIsFull
      <3>4. receipt = Named
        BY <2>1, <3>3, FullIsNamed
      <3> QED  BY <3>1, <3>2, <3>4
    <2>3. ASSUME NEW c \in Calls, Caller(c), ~WriteReceipt(c) PROVE receipt' = receipt
      BY <2>3, CallerDoes DEF Fails, UpdateFails, ReplayDelivery, NewQuote, PutStops, Guard, Lookup,
           Upload, Check, WriteToken, WriteIndex, SaveArtifactStage, Notes, MarkDelivered,
           MarkRecordOnly, vars
    <2>4. CASE Adopt \/ RetryPartial \/ Claim \/ Restart \/ \E status \in Ended : Stop(status)
      BY <2>4 DEF Adopt, RetryPartial, Claim, Restart, Stop
    <2> QED  BY <1>1, <2>2, <2>3, <2>4 DEF Next, vars
  <1>2. IInv /\ [Next]_vars => [job.status = "completed" /\ ~overlap => receipt' = receipt]_vars
    BY <1>1
  <1> QED  BY <1>2, Inductive, PTL DEF Spec, FinalReceiptStands

\* With one call at a time a record that a call may find delivered is never
\* marked otherwise: the error handler of buildEstimate never reaches a result
\* that could have been returned.
THEOREM SavedResultKept == Spec => SavedResultStands
  <1>1. ASSUME IInv, [Next]_vars, ~overlap', NEW q \in DOMAIN quotes,
               quotes[q].delivery = "delivered"
        PROVE  quotes'[q].delivery = "delivered"
    <2>1. TypeOK /\ Common /\ Alone /\ NamesAreQuotes
      BY <1>1, HistoryGrows DEF IInv, Common
    <2>2. quotes \in Seq(Quote) /\ Last \in Nat /\ q \in 1..Last
      BY <1>1 DEF IInv, TypeOK, Last
    <2>3. ASSUME NEW c \in Calls, Delivering(c), Gives(c) PROVE quotes'[q].delivery = "delivered"
      <3>1. OnlyMarks(call[c].quote)
        BY <2>1, <2>3, GivesUp
      <3>2. q # call[c].quote
        BY <1>1, <2>1, <2>3 DEF Alone, CallIsNamed
      <3> QED  BY <1>1, <2>2, <3>1, <3>2 DEF OnlyMarks, Last
    <2>4. ASSUME NEW c \in Calls, Notes(c) PROVE quotes'[q].delivery = "delivered"
      <3>1. OnlyMarks(call[c].quote) /\ quotes'[call[c].quote].delivery = "delivered"
        BY <2>1, <2>4, Delivers
      <3> QED  BY <1>1, <2>2, <3>1 DEF OnlyMarks, Last
    <2>5. ASSUME NEW c \in Calls, NEW partial \in BOOLEAN, Puts(c, partial)
          PROVE  quotes'[q].delivery = "delivered"
      BY <1>1, <2>1, <2>2, <2>5, PutsOne
    <2>6. ASSUME NEW c \in Calls, Caller(c)
          PROVE  \/ quotes' = quotes
                 \/ Delivering(c) /\ Gives(c)
                 \/ Notes(c)
                 \/ \E partial \in BOOLEAN : Puts(c, partial)
      BY <2>6, CallerDoes DEF ReplayDelivery, NewQuote, PutStops, Fails, InFlight, UpdateFails,
           Delivering, Advances, Lookup, Upload, Check, WriteToken, WriteIndex,
           SaveArtifactStage, WriteReceipt, vars
    <2>7. CASE Adopt \/ RetryPartial \/ Claim \/ Restart \/ \E status \in Ended : Stop(status)
      BY <1>1, <2>7 DEF Adopt, RetryPartial, Claim, Restart, Stop
    <2> QED  BY <1>1, <2>3, <2>4, <2>5, <2>6, <2>7 DEF Next, vars
  <1>2. IInv /\ [Next]_vars =>
          [~overlap' => \A q \in DOMAIN quotes :
             quotes[q].delivery = "delivered" => quotes'[q].delivery = "delivered"]_vars
    BY <1>1
  <1> QED  BY <1>2, Inductive, PTL DEF Spec, SavedResultStands
=============================================================================
