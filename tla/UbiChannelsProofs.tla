-------------------------- MODULE UbiChannelsProofs --------------------------
(***************************************************************************)
(* For any number of channels, stripes and requests: on one reactor the    *)
(* channels fetch each stripe once, count it once and never overwrite a    *)
(* client's write; on any number of reactors no read returns old data.     *)
(***************************************************************************)
EXTENDS UbiChannels, TLAPS

----------------------------------------------------------------------------
\* The queues.

\* What Append does to a queue, by index.
LEMMA AppendTo ==
    ASSUME NEW S, NEW q \in Seq(S), NEW x \in S
    PROVE  /\ Append(q, x) \in Seq(S) /\ Len(Append(q, x)) = Len(q) + 1 /\ Len(q) \in Nat
           /\ \A n \in 1 .. Len(q) : Append(q, x)[n] = q[n]
           /\ Append(q, x)[Len(q) + 1] = x
  OBVIOUS

\* What Head and Tail do to a queue, by index.
LEMMA TailOf ==
    ASSUME NEW S, NEW q \in Seq(S), q # <<>>
    PROVE  /\ Tail(q) \in Seq(S) /\ Len(q) \in Nat \ {0} /\ Len(Tail(q)) = Len(q) - 1
           /\ Head(q) = q[1] /\ Head(q) \in S
           /\ \A n \in 1 .. Len(q) - 1 : Tail(q)[n] = q[n + 1]
  OBVIOUS

\* A stripe enqueued for fetching is queued, on that channel, and no other is.
LEMMA QueuedAppend ==
    ASSUME TypeOK, NEW c \in Channel, NEW s \in Stripe,
           stripe_fetch_queue' = [stripe_fetch_queue EXCEPT ![c] = Append(@, s)]
    PROVE  /\ stripe_fetch_queue' \in [Channel -> Seq(Stripe)]
           /\ \A d \in Channel, t \in Stripe : Queued(d, t)' <=> Queued(d, t) \/ (d = c /\ t = s)
           /\ ~ Queued(c, s) => \A d \in Channel : NoRepeat(d) => NoRepeat(d)'
  <1> DEFINE q == stripe_fetch_queue[c]
             r == Append(q, s)
  <1>1. q \in Seq(Stripe) /\ stripe_fetch_queue \in [Channel -> Seq(Stripe)]
    BY Zenon DEF TypeOK
  <1>2. /\ r \in Seq(Stripe) /\ Len(r) = Len(q) + 1 /\ Len(q) \in Nat
        /\ \A n \in 1 .. Len(q) : r[n] = q[n]
        /\ r[Len(q) + 1] = s
    BY <1>1, AppendTo
  <1>3. /\ stripe_fetch_queue'[c] = r
        /\ \A d \in Channel : d # c => stripe_fetch_queue'[d] = stripe_fetch_queue[d]
    BY <1>1, Zenon
  <1>4. stripe_fetch_queue' \in [Channel -> Seq(Stripe)]
    BY <1>1, <1>2, Zenon
  <1> HIDE DEF q, r
  <1>5. ASSUME NEW d \in Channel, NEW t \in Stripe
        PROVE  Queued(d, t)' <=> Queued(d, t) \/ (d = c /\ t = s)
    <2>1. CASE d # c
      BY <1>3, <2>1, Zenon DEF Queued
    <2>2. CASE d = c
      <3>1. Queued(d, t)' <=> \E n \in 1 .. Len(r) : r[n] = t
        BY <1>3, <2>2, Zenon DEF Queued
      <3>2. Queued(d, t) <=> \E n \in 1 .. Len(q) : q[n] = t
        BY <2>2, Zenon DEF Queued, q
      <3>3. (\E n \in 1 .. Len(r) : r[n] = t) <=> (\E n \in 1 .. Len(q) : q[n] = t) \/ t = s
        BY <1>2
      <3> QED BY <2>2, <3>1, <3>2, <3>3, Zenon
    <2> QED BY <2>1, <2>2, Zenon
  <1>6. ASSUME ~ Queued(c, s), NEW d \in Channel, NoRepeat(d)
        PROVE  NoRepeat(d)'
    <2>1. CASE d # c
      BY <1>3, <1>6, <2>1, Zenon DEF NoRepeat
    <2>2. CASE d = c
      <3>1. \A n \in 1 .. Len(q) : q[n] # s
        BY <1>6, Zenon DEF Queued, q
      <3>2. \A m, n \in 1 .. Len(q) : q[m] = q[n] => m = n
        BY <1>6, <2>2, Zenon DEF NoRepeat, q
      <3>3. \A n \in 1 .. Len(r) : n \in 1 .. Len(q) \/ n = Len(q) + 1
        BY <1>2
      <3>4. \A m, n \in 1 .. Len(r) : r[m] = r[n] => m = n
        BY <1>2, <3>1, <3>2, <3>3, Zenon
      <3>5. stripe_fetch_queue'[d] = r
        BY <1>3, <2>2, Zenon
      <3>6. SUFFICES ASSUME NEW m \in 1 .. Len(stripe_fetch_queue'[d]),
                            NEW n \in 1 .. Len(stripe_fetch_queue'[d]),
                            stripe_fetch_queue'[d][m] = stripe_fetch_queue'[d][n]
                     PROVE  m = n
        BY Zenon DEF NoRepeat
      <3> QED BY <3>4, <3>5, <3>6, Zenon
    <2> QED BY <2>1, <2>2, Zenon
  <1> QED BY <1>4, <1>5, <1>6, Zenon

\* Dequeuing takes the head out of the queue, since no stripe is in it twice.
LEMMA QueuedTail ==
    ASSUME TypeOK, NEW c \in Channel, stripe_fetch_queue[c] # <<>>, NoRepeat(c),
           stripe_fetch_queue' = [stripe_fetch_queue EXCEPT ![c] = Tail(@)]
    PROVE  /\ stripe_fetch_queue' \in [Channel -> Seq(Stripe)]
           /\ Head(stripe_fetch_queue[c]) \in Stripe /\ Queued(c, Head(stripe_fetch_queue[c]))
           /\ \A d \in Channel, t \in Stripe :
                Queued(d, t)' <=> Queued(d, t) /\ ~ (d = c /\ t = Head(stripe_fetch_queue[c]))
           /\ \A d \in Channel : NoRepeat(d) => NoRepeat(d)'
  <1> DEFINE q == stripe_fetch_queue[c]
             r == Tail(q)
             s == Head(q)
  <1>1. q \in Seq(Stripe) /\ stripe_fetch_queue \in [Channel -> Seq(Stripe)]
    BY Zenon DEF TypeOK
  <1>2. /\ r \in Seq(Stripe) /\ Len(q) \in Nat \ {0} /\ Len(r) = Len(q) - 1
        /\ s = q[1] /\ s \in Stripe
        /\ \A n \in 1 .. Len(q) - 1 : r[n] = q[n + 1]
    BY <1>1, TailOf, Zenon
  <1>3. /\ stripe_fetch_queue'[c] = r
        /\ \A d \in Channel : d # c => stripe_fetch_queue'[d] = stripe_fetch_queue[d]
    BY <1>1, Zenon
  <1>4. stripe_fetch_queue' \in [Channel -> Seq(Stripe)]
    BY <1>1, <1>2, Zenon
  <1>5. \A m, n \in 1 .. Len(q) : q[m] = q[n] => m = n
    BY Zenon DEF NoRepeat
  <1>6. Queued(c, s)
    BY <1>2 DEF Queued
  <1> HIDE DEF q, r, s
  <1>7. ASSUME NEW d \in Channel, NEW t \in Stripe
        PROVE  Queued(d, t)' <=> Queued(d, t) /\ ~ (d = c /\ t = s)
    <2>1. CASE d # c
      BY <1>3, <2>1, Zenon DEF Queued
    <2>2. CASE d = c
      <3>1. Queued(d, t)' <=> \E n \in 1 .. Len(r) : r[n] = t
        BY <1>3, <2>2, Zenon DEF Queued
      <3>2. Queued(d, t) <=> \E n \in 1 .. Len(q) : q[n] = t
        BY <2>2, Zenon DEF Queued, q
      <3>3. ASSUME NEW n \in 1 .. Len(r), r[n] = t
            PROVE  t # s /\ \E m \in 1 .. Len(q) : q[m] = t
        <4>1. n + 1 \in 1 .. Len(q) /\ 1 \in 1 .. Len(q) /\ q[n + 1] = t /\ n + 1 # 1
          BY <1>2, <3>3
        <4> QED BY <1>2, <1>5, <4>1, Zenon
      <3>4. ASSUME NEW n \in 1 .. Len(q), q[n] = t, t # s
            PROVE  \E m \in 1 .. Len(r) : r[m] = t
        <4>1. n - 1 \in 1 .. Len(r) /\ r[n - 1] = t
          BY <1>2, <3>4
        <4> QED BY <4>1, Zenon
      <3> QED BY <2>2, <3>1, <3>2, <3>3, <3>4, Zenon
    <2> QED BY <2>1, <2>2, Zenon
  <1>8. ASSUME NEW d \in Channel, NoRepeat(d)
        PROVE  NoRepeat(d)'
    <2>1. CASE d # c
      BY <1>3, <1>8, <2>1, Zenon DEF NoRepeat
    <2>2. CASE d = c
      <3>1. \A n \in 1 .. Len(r) : n + 1 \in 1 .. Len(q) /\ r[n] = q[n + 1]
        BY <1>2
      <3>2. \A m, n \in 1 .. Len(r) : r[m] = r[n] => m + 1 = n + 1
        BY <1>5, <3>1, Zenon
      <3>3. \A m, n \in 1 .. Len(r) : m + 1 = n + 1 => m = n
        BY <1>2
      <3>4. \A m, n \in 1 .. Len(r) : r[m] = r[n] => m = n
        BY <3>2, <3>3, Zenon
      <3>5. stripe_fetch_queue'[d] = r
        BY <1>3, <2>2, Zenon
      <3>6. SUFFICES ASSUME NEW m \in 1 .. Len(stripe_fetch_queue'[d]),
                            NEW n \in 1 .. Len(stripe_fetch_queue'[d]),
                            stripe_fetch_queue'[d][m] = stripe_fetch_queue'[d][n]
                     PROVE  m = n
        BY Zenon DEF NoRepeat
      <3> QED BY <3>4, <3>5, <3>6, Zenon
    <2> QED BY <2>1, <2>2, Zenon
  <1> QED BY <1>2, <1>4, <1>6, <1>7, <1>8, Zenon DEF q, s

\* A request put on ch->io awaits its stripe.
LEMMA AwaitedAppend ==
    ASSUME TypeOK, NEW i \in Io, i.ch \in Channel,
           io' = [io EXCEPT ![i.ch] = Append(@, i)]
    PROVE  /\ io' \in [Channel -> Seq(Io)] /\ Awaited(i.ch, i.stripe)'
           /\ \A d \in Channel, t \in Stripe : Awaited(d, t) => Awaited(d, t)'
  <1> DEFINE q == io[i.ch]
             r == Append(q, i)
  <1>1. q \in Seq(Io) /\ io \in [Channel -> Seq(Io)]
    BY Zenon DEF TypeOK
  <1>2. /\ r \in Seq(Io) /\ Len(r) = Len(q) + 1 /\ Len(q) \in Nat
        /\ \A n \in 1 .. Len(q) : r[n] = q[n]
        /\ r[Len(q) + 1] = i
    BY <1>1, AppendTo
  <1>3. io'[i.ch] = r /\ \A d \in Channel : d # i.ch => io'[d] = io[d]
    BY <1>1, Zenon
  <1>4. io' \in [Channel -> Seq(Io)]
    BY <1>1, <1>2, Zenon
  <1> HIDE DEF r
  <1>5. Awaited(i.ch, i.stripe)'
    <2>1. Len(q) + 1 \in 1 .. Len(r)
      BY <1>2
    <2> QED BY <1>2, <1>3, <2>1, Zenon DEF Awaited
  <1>6. ASSUME NEW d \in Channel, NEW t \in Stripe, Awaited(d, t)
        PROVE  Awaited(d, t)'
    <2>1. CASE d # i.ch
      BY <1>3, <1>6, <2>1, Zenon DEF Awaited
    <2>2. CASE d = i.ch
      <3>1. PICK n \in 1 .. Len(q) : q[n].stripe = t
        BY <1>6, <2>2, Zenon DEF Awaited
      <3>2. n \in 1 .. Len(r) /\ r[n].stripe = t
        BY <1>2, <3>1
      <3> QED BY <1>3, <2>2, <3>2, Zenon DEF Awaited
    <2> QED BY <2>1, <2>2, Zenon
  <1> QED BY <1>4, <1>5, <1>6, Zenon

\* Serving the head of ch->io leaves every other stripe awaited.
LEMMA AwaitedTail ==
    ASSUME TypeOK, NEW c \in Channel, io[c] # <<>>, io' = [io EXCEPT ![c] = Tail(@)]
    PROVE  /\ io' \in [Channel -> Seq(Io)] /\ Head(io[c]) \in Io
           /\ \A d \in Channel, t \in Stripe :
                Awaited(d, t) /\ t # Head(io[c]).stripe => Awaited(d, t)'
  <1> DEFINE q == io[c]
             r == Tail(q)
  <1>1. q \in Seq(Io) /\ io \in [Channel -> Seq(Io)]
    BY Zenon DEF TypeOK
  <1>2. /\ r \in Seq(Io) /\ Len(q) \in Nat \ {0} /\ Len(r) = Len(q) - 1
        /\ Head(q) = q[1] /\ Head(q) \in Io
        /\ \A n \in 1 .. Len(q) - 1 : r[n] = q[n + 1]
    BY <1>1, TailOf, Zenon
  <1>3. io'[c] = r /\ \A d \in Channel : d # c => io'[d] = io[d]
    BY <1>1, Zenon
  <1>4. io' \in [Channel -> Seq(Io)]
    BY <1>1, <1>2, Zenon
  <1> HIDE DEF r
  <1>5. ASSUME NEW d \in Channel, NEW t \in Stripe, Awaited(d, t), t # Head(q).stripe
        PROVE  Awaited(d, t)'
    <2>1. CASE d # c
      BY <1>3, <1>5, <2>1, Zenon DEF Awaited
    <2>2. CASE d = c
      <3>1. PICK n \in 1 .. Len(q) : q[n].stripe = t
        BY <1>5, <2>2, Zenon DEF Awaited
      <3>2. n # 1
        BY <1>2, <1>5, <3>1, Zenon
      <3>3. n - 1 \in 1 .. Len(r) /\ r[n - 1].stripe = t
        BY <1>2, <3>1, <3>2
      <3> QED BY <1>3, <2>2, <3>3, Zenon DEF Awaited
    <2> QED BY <2>1, <2>2, Zenon
  <1> QED BY <1>2, <1>4, <1>5, Zenon

----------------------------------------------------------------------------
\* Types.

\* One handler or base bdev step is taken.
LEMMA Steps ==
    ASSUME [Next]_vars
    PROVE  \/ \E i \in Io : \/ ubi_submit_request(i) \/ MarkInflight(i) \/ Serve(i)
                            \/ get_buf_for_read_cb(i) \/ ubi_complete_io(i) \/ BaseClientIo(i)
           \/ \E c \in Channel : \/ ubi_start_fetch_stripe(c) \/ LoadFetched(c) \/ CountFetched(c)
           \/ \E c \in Channel : \E f \in fetches[c] :
                \/ ubi_complete_fetch_stripe(c, f) \/ write_stripe_io_completion(c, f)
                \/ BaseStripeWrite(c, f)
           \/ UNCHANGED vars
  BY Zenon DEF Next, Thread, BaseBdev

\* A handler that completes a fetch has its record, and then the count it loaded.
LEMMA CountRecord ==
    ASSUME TypeOK, NEW c \in Channel, running[c] # <<>>
    PROVE  /\ running[c][1] = "load"  => running[c][2] \in FetchRecord
           /\ running[c][1] = "count" => running[c][2] \in FetchRecord /\ running[c][3] \in Nat
  <1>1. running[c] \in Rest
    BY Zenon DEF TypeOK
  <1>2. running[c][1] \in {"load", "count"} => running[c] \notin {"mark", "getbuf"} \X Io
    BY Zenon
  <1>3. running[c][1] = "load" => running[c] \notin {"count"} \X FetchRecord \X Nat
    BY Zenon
  <1>4. running[c][1] = "count" => running[c] \notin {"load"} \X FetchRecord
    BY Zenon
  <1> QED BY <1>1, <1>2, <1>3, <1>4, Zenon DEF Rest

\* The variables keep their types.
LEMMA TypeNext ==
    ASSUME TypeOK, [Next]_vars
    PROVE  TypeOK'
  <1> USE ChannelsAssumption
  <1>a. running \in [Channel -> Rest]
    BY Zenon DEF TypeOK
  <1>b. ASSUME NEW c \in Channel, NEW r \in Rest, Runs(c, r)
        PROVE  running' \in [Channel -> Rest]
    BY <1>a, <1>b, Zenon DEF Runs
  <1>c. /\ <<>> \in Rest /\ \A f \in FetchRecord : <<"load", f>> \in Rest
        /\ \A i \in Io : <<"mark", i>> \in Rest /\ <<"getbuf", i>> \in Rest
        /\ \A f \in FetchRecord, n \in Nat : <<"count", f, n>> \in Rest
    BY Zenon DEF Rest
  <1>d. TypeOK' <=> /\ reactors' \in {"one", "many"} /\ stripes_fetched' \in Nat
                    /\ stripe_status' \in [Stripe -> {"NOT_FETCHED", "INFLIGHT", "FAILED", "FETCHED"}]
                    /\ io' \in [Channel -> Seq(Io)] /\ stripe_fetch_queue' \in [Channel -> Seq(Stripe)]
                    /\ fetches' \in [Channel -> SUBSET FetchRecord] /\ running' \in [Channel -> Rest]
                    /\ phase' \in [Io -> Phases]
                    /\ base' \in [Stripe -> Content]
                    /\ result' \in [Io -> Content \cup {Nothing}]
    BY Zenon DEF TypeOK
  <1>p. /\ "queued" \in Phases /\ "base" \in Phases /\ "effective" \in Phases
        /\ "ok" \in Phases /\ "failed" \in Phases /\ "lost" \in Phases
        /\ Io \subseteq Content /\ Image \in Content /\ Unwritten \in Content
    BY Zenon DEF Phases, Content
  <1>e. \A s \in Stripe : \A a \in {"image", "write", "written"} : Fetch(s, a) \in FetchRecord
    BY Zenon DEF Fetch, FetchRecord
  <1>1. ASSUME NEW i \in Io, ubi_submit_request(i)
        PROVE  TypeOK'
    <2>1. CASE TriggersFetch(i) /\ NotFetched(i)
      <3>1. stripe_fetch_queue' \in [Channel -> Seq(Stripe)]
        BY <1>1, <2>1, QueuedAppend, Zenon DEF ubi_submit_request
      <3>2. running' \in [Channel -> Rest]
        BY <1>1, <1>b, <1>c, <2>1, Zenon DEF ubi_submit_request
      <3>3. UNCHANGED <<reactors, shared, base, fetches, requests, io>>
        BY <1>1, <2>1, Zenon DEF ubi_submit_request, requests
      <3> QED BY <1>d, <3>1, <3>2, <3>3, Zenon DEF TypeOK, shared, requests
    <2>2. CASE ~ (TriggersFetch(i) /\ NotFetched(i))
      <3>1. io' \in [Channel -> Seq(Io)]
        BY <1>1, <2>2, AwaitedAppend, Zenon DEF ubi_submit_request, Enqueue
      <3>2. phase' \in [Io -> Phases]
        <4>1. phase' = [phase EXCEPT ![i] = "queued"]
          BY <1>1, <2>2, Zenon DEF ubi_submit_request, Enqueue
        <4> QED BY <1>p, <4>1, Zenon DEF TypeOK
      <3>3. UNCHANGED <<reactors, shared, base, fetches, result, stripe_fetch_queue, running>>
        BY <1>1, <2>2, Zenon DEF ubi_submit_request
      <3> QED BY <1>a, <1>d, <3>1, <3>2, <3>3, Zenon DEF TypeOK, shared
    <2> QED BY <2>1, <2>2, Zenon
  <1>2. ASSUME NEW i \in Io, MarkInflight(i)
        PROVE  TypeOK'
    <2>1. io' \in [Channel -> Seq(Io)]
      BY <1>2, AwaitedAppend, Zenon DEF MarkInflight, Enqueue
    <2>2. running' \in [Channel -> Rest]
      BY <1>2, <1>b, <1>c, Zenon DEF MarkInflight
    <2> QED BY <1>2, <1>d, <1>p, <2>1, <2>2, Zenon DEF MarkInflight, Enqueue, TypeOK
  <1>3. ASSUME NEW i \in Io, Serve(i)
        PROVE  TypeOK'
    <2>1. io' \in [Channel -> Seq(Io)]
      BY <1>3, AwaitedTail, Zenon DEF Serve
    <2>2. running' \in [Channel -> Rest]
      BY <1>3, <1>a, <1>b, <1>c, Zenon DEF Serve
    <2>3. phase' \in [Io -> Phases]
      BY <1>3, <1>p, Zenon DEF Serve, TypeOK
    <2> QED BY <1>3, <1>d, <2>1, <2>2, <2>3, Zenon DEF Serve, TypeOK, shared
  <1>4. ASSUME NEW i \in Io, get_buf_for_read_cb(i)
        PROVE  TypeOK'
    <2>1. running' \in [Channel -> Rest]
      BY <1>4, <1>b, <1>c, Zenon DEF get_buf_for_read_cb
    <2>2. result' \in [Io -> Content \cup {Nothing}]
      BY <1>4, <1>p, Zenon DEF get_buf_for_read_cb, TypeOK
    <2>3. phase' \in [Io -> Phases]
      <3>1. phase' = [phase EXCEPT ![i] = "base"] \/ phase' = [phase EXCEPT ![i] = "effective"]
        BY <1>4, Zenon DEF get_buf_for_read_cb
      <3> QED BY <1>p, <3>1, Zenon DEF TypeOK
    <2>4. UNCHANGED <<reactors, shared, base, io, stripe_fetch_queue, fetches>>
      BY <1>4, Zenon DEF get_buf_for_read_cb
    <2> QED BY <1>d, <2>1, <2>2, <2>3, <2>4, Zenon DEF TypeOK, shared
  <1>5. ASSUME NEW i \in Io, ubi_complete_io(i)
        PROVE  TypeOK'
    BY <1>5, <1>a, <1>d, <1>p, Zenon DEF ubi_complete_io, TypeOK, shared
  <1>6. ASSUME NEW i \in Io, BaseClientIo(i)
        PROVE  TypeOK'
    <2>1. base' \in [Stripe -> Content]
      <3>1. base' = base \/ base' = [base EXCEPT ![i.stripe] = i]
        BY <1>6, Zenon DEF BaseClientIo
      <3> QED BY <1>p, <3>1, Zenon DEF TypeOK
    <2>2. base[i.stripe] \in Content
      BY Zenon DEF TypeOK
    <2>3. result' \in [Io -> Content \cup {Nothing}]
      BY <1>6, <2>2, Zenon DEF BaseClientIo, TypeOK
    <2> QED BY <1>6, <1>a, <1>d, <1>p, <2>1, <2>3, Zenon DEF BaseClientIo, TypeOK, shared
  <1>7. ASSUME NEW c \in Channel, ubi_start_fetch_stripe(c)
        PROVE  TypeOK'
    <2>1. stripe_fetch_queue[c] \in Seq(Stripe) /\ stripe_fetch_queue[c] # <<>>
      BY <1>7, Zenon DEF TypeOK, ubi_start_fetch_stripe
    <2>2. Head(stripe_fetch_queue[c]) \in Stripe /\ Tail(stripe_fetch_queue[c]) \in Seq(Stripe)
      BY <2>1, TailOf, Zenon
    <2>3. fetches' \in [Channel -> SUBSET FetchRecord]
      BY <1>7, <1>e, <2>2 DEF TypeOK, ubi_start_fetch_stripe
    <2>4. stripe_fetch_queue' \in [Channel -> Seq(Stripe)]
      BY <1>7, <2>2, Zenon DEF TypeOK, ubi_start_fetch_stripe
    <2> QED BY <1>7, <1>a, <1>d, <2>3, <2>4, Zenon DEF ubi_start_fetch_stripe, TypeOK, shared, requests
  <1>8. ASSUME NEW c \in Channel, CountFetched(c)
        PROVE  TypeOK'
    <2>1. running[c][3] \in Nat /\ stripes_fetched' \in Nat
      BY <1>8, CountRecord DEF CountFetched
    <2>2. running' \in [Channel -> Rest]
      BY <1>8, <1>b, <1>c, Zenon DEF CountFetched
    <2>3. fetches' \in [Channel -> SUBSET FetchRecord]
      BY <1>8, Zenon DEF CountFetched, TypeOK
    <2> QED BY <1>8, <1>d, <2>1, <2>2, <2>3, Zenon DEF CountFetched, TypeOK, requests
  <1>9. ASSUME NEW c \in Channel, NEW f \in fetches[c], ubi_complete_fetch_stripe(c, f)
        PROVE  TypeOK'
    <2>1. f \in FetchRecord /\ f.stripe \in Stripe
      BY DEF TypeOK, FetchRecord
    <2>2. fetches' \in [Channel -> SUBSET FetchRecord]
      <3>1. fetches[c] \in SUBSET FetchRecord /\ Fetch(f.stripe, "write") \in FetchRecord
        BY <1>e, <2>1, Zenon DEF TypeOK
      <3>2. PICK F \in SUBSET FetchRecord : fetches' = [fetches EXCEPT ![c] = F]
        BY <1>9, <3>1, Zenon DEF ubi_complete_fetch_stripe
      <3> QED BY <3>2, Zenon DEF TypeOK
    <2>3. stripe_status' \in [Stripe -> {"NOT_FETCHED", "INFLIGHT", "FAILED", "FETCHED"}]
      BY <1>9, <2>1, Zenon DEF ubi_complete_fetch_stripe, Failed, TypeOK
    <2> QED BY <1>9, <1>a, <1>d, <2>2, <2>3, Zenon DEF ubi_complete_fetch_stripe, TypeOK, requests
  <1>10. ASSUME NEW c \in Channel, NEW f \in fetches[c], write_stripe_io_completion(c, f)
         PROVE  TypeOK'
    <2>1. f \in FetchRecord /\ f.stripe \in Stripe
      BY DEF TypeOK, FetchRecord
    <2>2. running' \in [Channel -> Rest]
      BY <1>10, <1>b, <1>c, <2>1, Zenon DEF write_stripe_io_completion
    <2> QED BY <1>10, <1>d, <2>1, <2>2, Zenon DEF write_stripe_io_completion, TypeOK, requests
  <1>11. ASSUME NEW c \in Channel, NEW f \in fetches[c], BaseStripeWrite(c, f)
         PROVE  TypeOK'
    <2>1. f \in FetchRecord /\ f.stripe \in Stripe
      BY DEF TypeOK, FetchRecord
    <2>2. fetches' \in [Channel -> SUBSET FetchRecord]
      BY <1>11, <1>e, <2>1 DEF BaseStripeWrite, TypeOK
    <2>3. base' \in [Stripe -> Content]
      BY <1>11, <1>p, <2>1, Zenon DEF BaseStripeWrite, TypeOK
    <2> QED BY <1>11, <1>a, <1>d, <2>2, <2>3, Zenon DEF BaseStripeWrite, TypeOK, shared, requests
  <1>12. ASSUME NEW c \in Channel, LoadFetched(c)
         PROVE  TypeOK'
    <2>1. running[c][2] \in FetchRecord /\ stripes_fetched \in Nat
      BY <1>12, CountRecord, Zenon DEF LoadFetched, TypeOK
    <2>2. running' \in [Channel -> Rest]
      BY <1>12, <1>b, <1>c, <2>1, Zenon DEF LoadFetched
    <2> QED BY <1>12, <1>d, <2>2, Zenon DEF LoadFetched, TypeOK, shared, requests
  <1>13. CASE UNCHANGED vars
    BY <1>13, <1>a, <1>d, Zenon DEF vars, TypeOK, shared, requests
  <1> QED BY Steps, <1>1, <1>2, <1>3, <1>4, <1>5, <1>6, <1>7, <1>8, <1>9, <1>10, <1>11, <1>12, <1>13, Zenon

\* The initial state is well typed.
LEMMA TypeInit ==
    ASSUME Init
    PROVE  TypeOK
  <1>1. /\ reactors \in {"one", "many"} /\ stripes_fetched \in Nat
        /\ stripe_status \in [Stripe -> {"NOT_FETCHED", "INFLIGHT", "FAILED", "FETCHED"}]
        /\ fetches \in [Channel -> SUBSET FetchRecord]
        /\ phase \in [Io -> Phases]
        /\ base \in [Stripe -> Content]
        /\ result \in [Io -> Content \cup {Nothing}]
    BY ChannelsAssumption, Zenon DEF Init, Phases, Content
  <1>2. io \in [Channel -> Seq(Io)] /\ stripe_fetch_queue \in [Channel -> Seq(Stripe)]
    BY DEF Init
  <1>3. running \in [Channel -> Rest]
    BY Zenon DEF Init, Rest
  <1> QED BY <1>1, <1>2, <1>3, Zenon DEF TypeOK

----------------------------------------------------------------------------
\* No read returns what the base bdev held before the image.

\* NotOld is inductive: once a stripe is written it is never old again.
LEMMA NotOldNext ==
    ASSUME TypeOK, NotOld, [Next]_vars
    PROVE  NotOld'
  <1> USE ChannelsAssumption
  <1>a. \A i \in Io : i # OldData /\ Image # OldData /\ Unwritten # OldData
    BY ContentsDiffer, Zenon DEF OldData, Image, Unwritten
  <1>f. \A c \in Channel : \A f \in fetches[c] : f.stripe \in Stripe
    BY DEF TypeOK, FetchRecord
  <1>s. /\ stripe_status \in [Stripe -> {"NOT_FETCHED", "INFLIGHT", "FAILED", "FETCHED"}]
        /\ phase \in [Io -> Phases]
        /\ base \in [Stripe -> Content]
        /\ fetches \in [Channel -> SUBSET FetchRecord]
        /\ result \in [Io -> Content \cup {Nothing}]
    BY Zenon DEF TypeOK
  <1>1. ASSUME NEW i \in Io, ubi_submit_request(i)
        PROVE  NotOld'
    <2>1. UNCHANGED <<stripe_status, base, fetches, result>>
      BY <1>1, Zenon DEF ubi_submit_request, shared
    <2>2. \A j \in Io : phase'[j] = "base" => phase[j] = "base"
      BY <1>1, <1>s, Zenon DEF ubi_submit_request, Enqueue
    <2> QED BY <2>1, <2>2, Zenon DEF NotOld
  <1>2. ASSUME NEW i \in Io, MarkInflight(i)
        PROVE  NotOld'
    <2>1. UNCHANGED <<base, fetches, result>>
      BY <1>2, Zenon DEF MarkInflight
    <2>2. \A j \in Io : phase'[j] = "base" => phase[j] = "base"
      BY <1>2, <1>s, Zenon DEF MarkInflight, Enqueue
    <2>3. \A s \in Stripe : stripe_status'[s] = "FETCHED" => stripe_status[s] = "FETCHED"
      BY <1>2, <1>s, Zenon DEF MarkInflight
    <2> QED BY <2>1, <2>2, <2>3, Zenon DEF NotOld
  <1>3. ASSUME NEW i \in Io, Serve(i)
        PROVE  NotOld'
    <2>1. ASSUME NEW j \in Io, phase'[j] = "base"
          PROVE  base[j.stripe] # OldData
      <3>1. CASE phase[j] = "base"
        BY <3>1, Zenon DEF NotOld
      <3>2. CASE phase[j] # "base"
        <4>1. j = i /\ ~ Refused(i) /\ i.type = "WRITE" /\ ~ Waits(i)
          BY <1>3, <1>s, <2>1, <3>2, Zenon DEF Serve
        <4>2. stripe_status[i.stripe] = "FETCHED"
          BY <1>s, <4>1, Zenon DEF Refused, Waits, TriggersFetch
        <4> QED BY <4>1, <4>2, Zenon DEF NotOld
      <3> QED BY <3>1, <3>2, Zenon
    <2> QED BY <1>3, <2>1, Zenon DEF Serve, NotOld, shared
  <1>4. ASSUME NEW i \in Io, get_buf_for_read_cb(i)
        PROVE  NotOld'
    <2>1. ASSUME NEW j \in Io, phase'[j] = "base"
          PROVE  base[j.stripe] # OldData
      BY <1>4, <1>s, <2>1, Zenon DEF get_buf_for_read_cb, ReadsBase, NotOld
    <2>2. ASSUME NEW j \in Io
          PROVE  result'[j] # OldData
      BY <1>4, <1>a, <1>s, <2>2, Zenon DEF get_buf_for_read_cb, NotOld
    <2> QED BY <1>4, <2>1, <2>2, Zenon DEF get_buf_for_read_cb, NotOld, shared
  <1>5. ASSUME NEW i \in Io, ubi_complete_io(i)
        PROVE  NotOld'
    BY <1>5, <1>s, Zenon DEF ubi_complete_io, NotOld, shared
  <1>6. ASSUME NEW i \in Io, BaseClientIo(i)
        PROVE  NotOld'
    <2>1. \A s \in Stripe : base[s] # OldData => base'[s] # OldData
      BY <1>6, <1>a, <1>s, Zenon DEF BaseClientIo
    <2>2. \A j \in Io : result'[j] # OldData
      BY <1>6, <1>s, Zenon DEF BaseClientIo, NotOld
    <2>3. \A j \in Io : phase'[j] = "base" => phase[j] = "base"
      BY <1>6, <1>s, Zenon DEF BaseClientIo
    <2> QED BY <1>6, <1>f, <2>1, <2>2, <2>3, Zenon DEF BaseClientIo, NotOld, shared
  <1>7. ASSUME NEW c \in Channel, ubi_start_fetch_stripe(c)
        PROVE  NotOld'
    <2>1. ASSUME NEW d \in Channel, NEW g \in fetches'[d], g.at = "written"
          PROVE  g \in fetches[d]
      BY <1>7, <1>s, <2>1 DEF ubi_start_fetch_stripe, Fetch
    <2> QED BY <1>7, <2>1, Zenon DEF ubi_start_fetch_stripe, NotOld, shared, requests
  <1>8. ASSUME NEW c \in Channel, CountFetched(c)
        PROVE  NotOld'
    <2>1. ASSUME NEW d \in Channel, NEW g \in fetches'[d], g.at = "written"
          PROVE  g \in fetches[d]
      BY <1>8, <1>s, <2>1, Zenon DEF CountFetched
    <2> QED BY <1>8, <2>1, Zenon DEF CountFetched, NotOld, requests
  <1>9. ASSUME NEW c \in Channel, NEW f \in fetches[c], ubi_complete_fetch_stripe(c, f)
        PROVE  NotOld'
    <2>1. ASSUME NEW d \in Channel, NEW g \in fetches'[d], g.at = "written"
          PROVE  g \in fetches[d]
      BY <1>9, <1>s, <2>1 DEF ubi_complete_fetch_stripe, Fetch
    <2>2. \A s \in Stripe : stripe_status'[s] = "FETCHED" => stripe_status[s] = "FETCHED"
      BY <1>9, <1>f, <1>s, Zenon DEF ubi_complete_fetch_stripe, Failed
    <2> QED BY <1>9, <2>1, <2>2, Zenon DEF ubi_complete_fetch_stripe, NotOld, requests
  <1>10. ASSUME NEW c \in Channel, NEW f \in fetches[c], write_stripe_io_completion(c, f)
         PROVE  NotOld'
    BY <1>10, <1>f, <1>s DEF write_stripe_io_completion, NotOld, requests
  <1>11. ASSUME NEW c \in Channel, NEW f \in fetches[c], BaseStripeWrite(c, f)
         PROVE  NotOld'
    <2>1. ASSUME NEW d \in Channel, NEW g \in fetches'[d], g.at = "written"
          PROVE  g \in fetches[d] \/ g.stripe = f.stripe
      BY <1>11, <1>s, <2>1 DEF BaseStripeWrite, Fetch
    <2>2. /\ base'[f.stripe] # OldData
          /\ \A s \in Stripe : base[s] # OldData => base'[s] # OldData
      <3>1. PICK v \in {Image, Unwritten} : base' = [base EXCEPT ![f.stripe] = v]
        BY <1>11, Zenon DEF BaseStripeWrite
      <3>2. Image # OldData /\ Unwritten # OldData
        BY Zenon DEF Image, Unwritten, OldData
      <3> QED BY <1>f, <1>s, <3>1, <3>2, Zenon
    <2>3. UNCHANGED <<stripe_status, phase, result>>
      BY <1>11, Zenon DEF BaseStripeWrite, shared, requests
    <2>4. \A d \in Channel : \A g \in fetches'[d] : g.at = "written" => base'[g.stripe] # OldData
      BY <1>f, <2>1, <2>2, Zenon DEF NotOld
    <2> QED BY <2>2, <2>3, <2>4, Zenon DEF NotOld
  <1>12. ASSUME NEW c \in Channel, LoadFetched(c)
         PROVE  NotOld'
    BY <1>12, Zenon DEF LoadFetched, NotOld, shared, requests
  <1>13. CASE UNCHANGED vars
    BY <1>13, Zenon DEF vars, NotOld, shared, requests
  <1> QED BY Steps, <1>1, <1>2, <1>3, <1>4, <1>5, <1>6, <1>7, <1>8, <1>9, <1>10, <1>11, <1>12, <1>13, Zenon

\* Whatever the reactors and whatever fails: a FETCHED stripe holds the image, a
\* client's write or what a failed base write of the stripe left, and no read returns
\* what the base bdev held before (the status is set after the base write of the
\* stripe, and read before a request goes to the base bdev).
THEOREM NoOldDataAlways == Spec => []NoOldData
  <1>1. Init => NotOld
    BY DEF Init, NotOld, Nothing, OldData
  <1>2. TypeOK /\ NotOld => NoOldData
    BY Zenon DEF TypeOK, Content, NotOld, NoOldData
  <1> QED BY <1>1, <1>2, TypeInit, TypeNext, NotOldNext, PTL DEF Spec

----------------------------------------------------------------------------
\* One reactor: the fetches and the status of the stripes.

\* No handler is between its steps: nothing is being marked or counted.
LEMMA NoneRunning ==
    ASSUME NEW c \in Channel, running[c] = <<>>
    PROVE  \A s \in Stripe : ~ Marking(c, s) /\ ~ Counting(c, s)
  BY DEF Marking, Counting

\* When a handler begins on one reactor, no other is between its steps.
LEMMA IdleAtBegin ==
    ASSUME OneReactor, NEW c \in Channel, Begins(c)
    PROVE  /\ \A d \in Channel : running[d] = <<>>
           /\ \A d \in Channel, s \in Stripe : ~ Marking(d, s) /\ ~ Counting(d, s)
  BY NoneRunning, Zenon DEF OneReactor, Begins

\* Steps that leave the status, the queues, the fetches and the marks alone.
LEMMA FetchFrame ==
    ASSUME HeldInv, StatusInv,
           UNCHANGED <<stripe_status, stripes_fetched, stripe_fetch_queue, fetches>>,
           \A d \in Channel, t \in Stripe :
             Held(d, t) /\ stripe_status[t] = "INFLIGHT" /\ Awaited(d, t) => Awaited(d, t)',
           \A d \in Channel : \/ running'[d] = running[d]
                              \/ running[d] = <<>> /\ \E i \in Io : running'[d] = <<"getbuf", i>>
                              \/ running'[d] = <<>> /\ \E i \in Io : running[d] = <<"getbuf", i>>,
           \A c, d \in Channel : running'[c] # <<>> /\ running'[d] # <<>> => c = d
    PROVE  HeldInv' /\ StatusInv'
  <1>1. \A d \in Channel : NoRepeat(d)' <=> NoRepeat(d)
    BY Zenon DEF NoRepeat
  <1>2. \A d \in Channel, t \in Stripe : /\ Queued(d, t)' <=> Queued(d, t)
                                         /\ Held(d, t)' <=> Held(d, t)
    BY Zenon DEF Queued, Held
  <1>2a. \A d \in Channel : \A f \in fetches[d] : Queued(d, f.stripe)' <=> Queued(d, f.stripe)
    BY Zenon DEF Queued
  <1>3. HeldInv'
    BY <1>1, <1>2, <1>2a, Zenon DEF HeldInv
  <1>4. ASSUME NEW d \in Channel, NEW t \in Stripe
        PROVE  (Marking(d, t)' <=> Marking(d, t)) /\ (Counting(d, t)' <=> Counting(d, t))
    <2>1. CASE running'[d] = running[d]
      BY <2>1, Zenon DEF Marking, Counting
    <2>2. ASSUME NEW r \in {running[d], running'[d]}, r = <<>> \/ \E i \in Io : r = <<"getbuf", i>>
          PROVE  /\ \A i \in Io : r # <<"mark", i>>
                 /\ \A f \in fetches[d] : r \notin {<<"load", f>>, <<"count", f, stripes_fetched>>}
      BY <2>2
    <2>3. CASE running'[d] # running[d]
      <3>1. /\ running[d] = <<>> \/ \E i \in Io : running[d] = <<"getbuf", i>>
            /\ running'[d] = <<>> \/ \E i \in Io : running'[d] = <<"getbuf", i>>
        BY <2>3, Zenon
      <3>2. ~ Marking(d, t) /\ ~ Counting(d, t)
        BY <2>2, <3>1, Zenon DEF Marking, Counting
      <3>3. ~ Marking(d, t)' /\ ~ Counting(d, t)'
        BY <2>2, <3>1, Zenon DEF Marking, Counting
      <3> QED BY <3>2, <3>3, Zenon
    <2> QED BY <2>1, <2>3, Zenon
  <1>5. ASSUME NEW d \in Channel, Completes(d)'
        PROVE  \E t \in Stripe : Counting(d, t)'
    <2>1. running'[d] = running[d]
      BY <1>5 DEF Completes
    <2>2. \E t \in Stripe : Counting(d, t)
      BY <1>5, <2>1, Zenon DEF StatusInv, Completes
    <2> QED BY <1>4, <2>2, Zenon
  <1>6. StatusInv'
    BY <1>2, <1>4, <1>5, Zenon DEF StatusInv
  <1> QED BY <1>3, <1>6, Zenon

\* Submission of a request.
LEMMA SubmitHeld ==
    ASSUME TypeOK, OneReactor, HeldInv, StatusInv, NEW i \in Io, ubi_submit_request(i)
    PROVE  HeldInv' /\ StatusInv'
  <1> DEFINE c == i.ch
             s == i.stripe
  <1>1. c \in Channel /\ s \in Stripe
    BY ChannelsAssumption, Zenon
  <1>2. /\ \A d \in Channel : running[d] = <<>>
        /\ \A d \in Channel, t \in Stripe : ~ Marking(d, t) /\ ~ Counting(d, t)
    BY <1>1, IdleAtBegin, Zenon DEF ubi_submit_request
  <1>3. CASE ~ (TriggersFetch(i) /\ NotFetched(i))
    <2>1. \A d \in Channel, t \in Stripe : Awaited(d, t) => Awaited(d, t)'
      BY <1>1, <1>3, AwaitedAppend, Zenon DEF ubi_submit_request, Enqueue
    <2>2. /\ running' = running
          /\ UNCHANGED <<stripe_status, stripes_fetched, stripe_fetch_queue, fetches>>
      BY <1>3, Zenon DEF ubi_submit_request, shared
    <2> QED BY <1>2, <2>1, <2>2, FetchFrame, Zenon
  <1>4. CASE TriggersFetch(i) /\ NotFetched(i)
    <2>1. /\ stripe_fetch_queue' = [stripe_fetch_queue EXCEPT ![c] = Append(@, s)]
          /\ running' = [running EXCEPT ![c] = <<"mark", i>>]
          /\ UNCHANGED <<stripe_status, stripes_fetched, fetches, io>>
          /\ stripe_status[s] = "NOT_FETCHED"
      BY <1>4, Zenon DEF ubi_submit_request, Runs, shared, NotFetched
    <2>2. \A d \in Channel : ~ Held(d, s)
      BY <1>1, <1>2, <2>1, Zenon DEF StatusInv
    <2>3. /\ \A d \in Channel, t \in Stripe : Queued(d, t)' <=> Queued(d, t) \/ (d = c /\ t = s)
          /\ \A d \in Channel : NoRepeat(d) => NoRepeat(d)'
      <3>1. ~ Queued(c, s)
        BY <1>1, <2>2, Zenon DEF Held
      <3> HIDE DEF c, s
      <3> QED BY <1>1, <2>1, <3>1, QueuedAppend, Zenon
    <2>4. \A d \in Channel, t \in Stripe : Held(d, t)' <=> Held(d, t) \/ (d = c /\ t = s)
      BY <2>1, <2>3, Zenon DEF Held
    <2>5. \A d \in Channel, t \in Stripe : Awaited(d, t)' <=> Awaited(d, t)
      BY <2>1, Zenon DEF Awaited
    <2>6. \A d \in Channel : running'[d] = IF d = c THEN <<"mark", i>> ELSE <<>>
      BY <1>1, <1>2, <2>1, Zenon DEF TypeOK
    <2>f. \A d \in Channel : \A f \in fetches[d] : f.stripe \in Stripe
      BY DEF TypeOK, FetchRecord
    <2>7. \A d \in Channel, t \in Stripe : /\ Marking(d, t)' <=> d = c /\ t = s
                                           /\ ~ Counting(d, t)'
      BY <2>6, <1>1 DEF Marking, Counting
    <2>8. HeldInv'
      <3>1. ASSUME NEW d \in Channel, NEW f \in fetches'[d]
            PROVE  ~ Queued(d, f.stripe)'
        <4>1. f \in fetches[d] /\ f.stripe \in Stripe /\ Held(d, f.stripe)
          BY <2>1, <2>f, Zenon DEF Held
        <4>2. ~ Queued(d, f.stripe) /\ ~ (d = c /\ f.stripe = s)
          BY <1>1, <2>2, <4>1, Zenon DEF HeldInv
        <4> QED BY <2>3, <4>1, <4>2, Zenon
      <3> HIDE DEF c, s
      <3>2. \A d \in Channel : NoRepeat(d)'
        BY <2>3, Zenon DEF HeldInv
      <3>3. \A d, e \in Channel, t \in Stripe : Held(d, t)' /\ Held(e, t)' => d = e
        BY <2>2, <2>4 DEF HeldInv
      <3> QED BY <2>1, <3>1, <3>2, <3>3, Zenon DEF HeldInv
    <2>9. StatusInv'
      <3> HIDE DEF c, s
      <3>1. ASSUME NEW d \in Channel, NEW t \in Stripe
            PROVE  /\ Held(d, t)' => stripe_status'[t] = "INFLIGHT" \/ Marking(d, t)' \/ Counting(d, t)'
                   /\ Held(d, t)' /\ stripe_status'[t] = "INFLIGHT" => Awaited(d, t)'
                   /\ Marking(d, t)' => Queued(d, t)' /\ stripe_status'[t] = "NOT_FETCHED"
        BY <1>2, <2>1, <2>3, <2>4, <2>5, <2>7, Zenon DEF StatusInv
      <3>2. \A t \in Stripe : stripe_status'[t] = "INFLIGHT" => \E d \in Channel : Held(d, t)'
        BY <2>1, <2>4, Zenon DEF StatusInv
      <3>3. \A d \in Channel : ~ Completes(d)' /\ (running'[d] # <<>> => d = c)
        BY <2>6 DEF Completes
      <3> QED BY <2>7, <3>1, <3>2, <3>3, Zenon DEF StatusInv
    <2> QED BY <2>8, <2>9, Zenon
  <1> QED BY <1>3, <1>4, Zenon

\* The second step of a submission.
LEMMA MarkHeld ==
    ASSUME TypeOK, OneReactor, HeldInv, StatusInv, NEW i \in Io, MarkInflight(i)
    PROVE  HeldInv' /\ StatusInv'
  <1> DEFINE c == i.ch
             s == i.stripe
  <1>1. c \in Channel /\ s \in Stripe
    BY ChannelsAssumption
  <1>2. /\ running[c] = <<"mark", i>> /\ running' = [running EXCEPT ![c] = <<>>]
        /\ stripe_status' = [stripe_status EXCEPT ![s] = "INFLIGHT"]
        /\ UNCHANGED <<stripes_fetched, stripe_fetch_queue, fetches>>
    BY Zenon DEF MarkInflight, Runs
  <1>3. Awaited(c, s)' /\ \A d \in Channel, t \in Stripe : Awaited(d, t) => Awaited(d, t)'
    BY <1>1, AwaitedAppend, Zenon DEF MarkInflight, Enqueue
  <1>4. \A d \in Channel : d # c => running[d] = <<>>
    BY <1>1, <1>2 DEF StatusInv
  <1>5. \A d \in Channel : running'[d] = <<>>
    BY <1>1, <1>2, <1>4, Zenon DEF TypeOK
  <1>6. \A d \in Channel, t \in Stripe : ~ Marking(d, t)' /\ ~ Counting(d, t)'
    <2>1. \A j \in Io : <<>> # <<"mark", j>>
      BY Zenon
    <2>2. \A f, n : <<>> # <<"count", f, n>> /\ <<>> # <<"load", f>>
      BY Zenon
    <2> QED BY <1>5, <2>1, <2>2, Zenon DEF Marking, Counting
  <1>7. \A d \in Channel, t \in Stripe : /\ Marking(d, t) <=> d = c /\ t = s
                                         /\ ~ Counting(d, t)
    BY <1>1, <1>2, <1>4 DEF Marking, Counting
  <1>8. /\ \A d \in Channel : NoRepeat(d)' <=> NoRepeat(d)
        /\ \A d \in Channel, t \in Stripe : /\ Queued(d, t)' <=> Queued(d, t)
                                            /\ Held(d, t)' <=> Held(d, t)
        /\ \A d \in Channel : \A f \in fetches[d] : Queued(d, f.stripe)' <=> Queued(d, f.stripe)
    BY <1>2, Zenon DEF NoRepeat, Queued, Held
  <1>9. HeldInv'
    BY <1>2, <1>8, Zenon DEF HeldInv
  <1>10. Held(c, s) /\ stripe_status[s] = "NOT_FETCHED"
    BY <1>1, <1>7, Zenon DEF StatusInv, Held
  <1>11. \A t \in Stripe : stripe_status'[t] = IF t = s THEN "INFLIGHT" ELSE stripe_status[t]
    BY <1>1, <1>2, Zenon DEF TypeOK
  <1>12. StatusInv'
    <2> HIDE DEF c, s
    <2>1. ASSUME NEW d \in Channel, NEW t \in Stripe
          PROVE  /\ Held(d, t)' => stripe_status'[t] = "INFLIGHT"
                 /\ Held(d, t)' /\ stripe_status'[t] = "INFLIGHT" => Awaited(d, t)'
      <3>1. CASE t = s
        BY <1>1, <1>3, <1>8, <1>10, <1>11, <3>1, Zenon DEF HeldInv
      <3>2. CASE t # s
        BY <1>3, <1>7, <1>8, <1>11, <3>2, Zenon DEF StatusInv
      <3> QED BY <3>1, <3>2, Zenon
    <2>2. \A t \in Stripe : stripe_status'[t] = "INFLIGHT" => \E d \in Channel : Held(d, t)'
      BY <1>1, <1>8, <1>10, <1>11 DEF StatusInv
    <2> QED BY <1>5, <1>6, <2>1, <2>2, Zenon DEF StatusInv, Completes
  <1> QED BY <1>9, <1>12

\* The head of the fetch queue becomes a fetch.
LEMMA StartHeld ==
    ASSUME TypeOK, OneReactor, HeldInv, StatusInv, NEW c \in Channel, ubi_start_fetch_stripe(c)
    PROVE  HeldInv' /\ StatusInv'
  <1> DEFINE s == Head(stripe_fetch_queue[c])
             g == Fetch(s, "image")
  <1>1. /\ \A d \in Channel : running[d] = <<>>
        /\ \A d \in Channel, t \in Stripe : ~ Marking(d, t) /\ ~ Counting(d, t)
    BY IdleAtBegin, Zenon DEF ubi_start_fetch_stripe
  <1>2. /\ stripe_fetch_queue[c] # <<>>
        /\ stripe_fetch_queue' = [stripe_fetch_queue EXCEPT ![c] = Tail(@)]
        /\ fetches' = [fetches EXCEPT ![c] = @ \cup {g}]
        /\ UNCHANGED <<stripe_status, stripes_fetched, io, running>>
    BY Zenon DEF ubi_start_fetch_stripe, shared
  <1>3. /\ s \in Stripe /\ Queued(c, s)
        /\ \A d \in Channel, t \in Stripe : Queued(d, t)' <=> Queued(d, t) /\ ~ (d = c /\ t = s)
        /\ \A d \in Channel : NoRepeat(d)'
    BY <1>2, QueuedTail, Zenon DEF HeldInv
  <1>4. g.stripe = s
    BY Zenon DEF Fetch
  <1> HIDE DEF s, g
  <1>5. \A d \in Channel : \A f : f \in fetches'[d] <=> f \in fetches[d] \/ (d = c /\ f = g)
    BY <1>2, Zenon DEF TypeOK
  <1>f. \A d \in Channel : \A f \in fetches[d] : f.stripe \in Stripe
    BY DEF TypeOK, FetchRecord
  <1>6. \A d \in Channel, t \in Stripe : Held(d, t)' <=> Held(d, t)
    BY <1>3, <1>4, <1>5, Zenon DEF Held
  <1>7. HeldInv'
    <2>1. ASSUME NEW d \in Channel, NEW f \in fetches'[d]
          PROVE  ~ Queued(d, f.stripe)'
      <3>1. CASE f \in fetches[d]
        BY <1>3, <1>f, <3>1, Zenon DEF HeldInv
      <3>2. CASE d = c /\ f = g
        BY <1>3, <1>4, <3>2, Zenon
      <3> QED BY <1>5, <3>1, <3>2, Zenon
    <2>2. ASSUME NEW d \in Channel, NEW f \in fetches'[d], NEW h \in fetches'[d],
                 f.stripe = h.stripe
          PROVE  f = h
      <3>1. c = d => \A e \in fetches[d] : e.stripe # g.stripe
        BY <1>3, <1>4, Zenon DEF HeldInv
      <3> QED BY <1>5, <2>2, <3>1 DEF HeldInv
    <2>3. \A d, e \in Channel, t \in Stripe : Held(d, t)' /\ Held(e, t)' => d = e
      BY <1>6, Zenon DEF HeldInv
    <2> QED BY <1>3, <2>1, <2>2, <2>3, Zenon DEF HeldInv
  <1>8. StatusInv'
    <2>1. \A d \in Channel : running'[d] = <<>>
      BY <1>1, <1>2, Zenon
    <2>2. \A d \in Channel, t \in Stripe : ~ Marking(d, t)' /\ ~ Counting(d, t)'
      <3>1. \A j \in Io : <<>> # <<"mark", j>>
        BY Zenon
      <3>2. \A f, n : <<>> # <<"count", f, n>> /\ <<>> # <<"load", f>>
        BY Zenon
      <3> QED BY <2>1, <3>1, <3>2, Zenon DEF Marking, Counting
    <2>3. \A d \in Channel, t \in Stripe : Awaited(d, t)' <=> Awaited(d, t)
      BY <1>2, Zenon DEF Awaited
    <2> QED BY <1>1, <1>2, <1>6, <2>1, <2>2, <2>3, Zenon DEF StatusInv, Completes
  <1> QED BY <1>7, <1>8

\* A fetch goes on: the channel holds the same stripes.
LEMMA FetchGoesOn ==
    ASSUME TypeOK, HeldInv, NEW c \in Channel, NEW f \in fetches[c], NEW g, g.stripe = f.stripe,
           fetches' = [fetches EXCEPT ![c] = (@ \ {f}) \cup {g}],
           UNCHANGED stripe_fetch_queue
    PROVE  /\ HeldInv'
           /\ \A d \in Channel, t \in Stripe : /\ Held(d, t)' <=> Held(d, t)
                                               /\ Queued(d, t)' <=> Queued(d, t)
  <1>1. \A d \in Channel : \A h : h \in fetches'[d] <=> \/ h \in fetches[d] /\ ~ (d = c /\ h = f)
                                                        \/ d = c /\ h = g
    BY Zenon DEF TypeOK
  <1>2. /\ \A d \in Channel : \A t : Queued(d, t)' <=> Queued(d, t)
        /\ \A d \in Channel : NoRepeat(d)' <=> NoRepeat(d)
    BY Zenon DEF Queued, NoRepeat
  <1>3. \A d \in Channel, t \in Stripe : Held(d, t)' <=> Held(d, t)
    BY <1>1, <1>2, Zenon DEF Held
  <1>4. \A d \in Channel : \A h \in fetches'[d] : ~ Queued(d, h.stripe)'
    BY <1>1, <1>2, Zenon DEF HeldInv
  <1>5. \A d \in Channel : \A h, k \in fetches'[d] : h.stripe = k.stripe => h = k
    BY <1>1 DEF HeldInv
  <1>6. \A d, e \in Channel, t \in Stripe : Held(d, t)' /\ Held(e, t)' => d = e
    BY <1>3, Zenon DEF HeldInv
  <1> QED BY <1>2, <1>3, <1>4, <1>5, <1>6, Zenon DEF HeldInv

\* A fetch ends: its stripe is not held any more.
LEMMA FetchEnds ==
    ASSUME TypeOK, HeldInv, NEW c \in Channel, NEW f \in fetches[c],
           fetches' = [fetches EXCEPT ![c] = @ \ {f}], UNCHANGED stripe_fetch_queue
    PROVE  /\ HeldInv'
           /\ \A d \in Channel, t \in Stripe : Held(d, t)' <=> Held(d, t) /\ t # f.stripe
           /\ Held(c, f.stripe) /\ f.stripe \in Stripe
  <1>1. \A d \in Channel : \A h : h \in fetches'[d] <=> h \in fetches[d] /\ ~ (d = c /\ h = f)
    BY Zenon DEF TypeOK
  <1>2. /\ \A d \in Channel : \A t : Queued(d, t)' <=> Queued(d, t)
        /\ \A d \in Channel : NoRepeat(d)' <=> NoRepeat(d)
    BY Zenon DEF Queued, NoRepeat
  <1>3. Held(c, f.stripe) /\ f.stripe \in Stripe
    BY DEF Held, TypeOK, FetchRecord
  <1>4. ASSUME NEW d \in Channel, NEW t \in Stripe
        PROVE  Held(d, t)' <=> Held(d, t) /\ t # f.stripe
    <2>1. CASE t # f.stripe
      BY <1>1, <1>2, <2>1, Zenon DEF Held
    <2>2. CASE t = f.stripe
      <3>1. ~ Queued(c, f.stripe) /\ \A h \in fetches[c] : h.stripe = f.stripe => h = f
        BY Zenon DEF HeldInv
      <3>2. d # c => ~ Held(d, t)
        BY <1>3, <2>2, Zenon DEF HeldInv
      <3>3. ~ Held(d, t)'
        BY <1>1, <1>2, <2>2, <3>1, <3>2, Zenon DEF Held
      <3> QED BY <2>2, <3>3, Zenon
    <2> QED BY <2>1, <2>2, Zenon
  <1>5. \A d \in Channel : \A h \in fetches'[d] : ~ Queued(d, h.stripe)'
    BY <1>1, <1>2, Zenon DEF HeldInv
  <1>6. \A d \in Channel : \A h, k \in fetches'[d] : h.stripe = k.stripe => h = k
    BY <1>1, Zenon DEF HeldInv
  <1>7. \A d, e \in Channel, t \in Stripe : Held(d, t)' /\ Held(e, t)' => d = e
    BY <1>4, Zenon DEF HeldInv
  <1> QED BY <1>2, <1>3, <1>4, <1>5, <1>6, <1>7, Zenon DEF HeldInv

\* No handler is between its steps after the step.
LEMMA NoneRunningNext ==
    ASSUME \A d \in Channel : running'[d] = <<>>
    PROVE  \A d \in Channel, t \in Stripe : ~ Marking(d, t)' /\ ~ Counting(d, t)'
  <1>1. \A j \in Io : <<>> # <<"mark", j>>
    BY Zenon
  <1>2. \A f, n : <<>> # <<"count", f, n>> /\ <<>> # <<"load", f>>
    BY Zenon
  <1> QED BY <1>1, <1>2, Zenon DEF Marking, Counting

\* The image read of a fetch is done.
LEMMA CompleteHeld ==
    ASSUME TypeOK, OneReactor, HeldInv, StatusInv, NEW c \in Channel, NEW f \in fetches[c],
           ubi_complete_fetch_stripe(c, f)
    PROVE  HeldInv' /\ StatusInv'
  <1>1. /\ \A d \in Channel : running[d] = <<>>
        /\ \A d \in Channel, t \in Stripe : ~ Marking(d, t) /\ ~ Counting(d, t)
    BY IdleAtBegin, Zenon DEF ubi_complete_fetch_stripe
  <1>2. /\ UNCHANGED <<stripes_fetched, io, stripe_fetch_queue, running>>
        /\ \/ /\ fetches' = [fetches EXCEPT ![c] = (@ \ {f}) \cup {Fetch(f.stripe, "write")}]
              /\ UNCHANGED stripe_status
           \/ /\ stripe_status' = [stripe_status EXCEPT ![f.stripe] = "FAILED"]
              /\ fetches' = [fetches EXCEPT ![c] = @ \ {f}]
    BY Zenon DEF ubi_complete_fetch_stripe, Failed
  <1>3. \A d \in Channel : running'[d] = <<>>
    BY <1>1, <1>2, Zenon
  <1>4. \A d \in Channel, t \in Stripe : ~ Marking(d, t)' /\ ~ Counting(d, t)'
    BY <1>3, NoneRunningNext, Zenon
  <1>5. \A d \in Channel, t \in Stripe : Awaited(d, t)' <=> Awaited(d, t)
    BY <1>2, Zenon DEF Awaited
  <1>6. CASE /\ fetches' = [fetches EXCEPT ![c] = (@ \ {f}) \cup {Fetch(f.stripe, "write")}]
             /\ UNCHANGED stripe_status
    <2>1. Fetch(f.stripe, "write").stripe = f.stripe
      BY Zenon DEF Fetch
    <2>2. HeldInv' /\ \A d \in Channel, t \in Stripe : Held(d, t)' <=> Held(d, t)
      BY <1>2, <1>6, <2>1, FetchGoesOn, Zenon
    <2> QED BY <1>1, <1>3, <1>4, <1>5, <1>6, <2>2, Zenon DEF StatusInv, Completes
  <1>7. CASE /\ stripe_status' = [stripe_status EXCEPT ![f.stripe] = "FAILED"]
             /\ fetches' = [fetches EXCEPT ![c] = @ \ {f}]
    <2>1. /\ HeldInv' /\ f.stripe \in Stripe
          /\ \A d \in Channel, t \in Stripe : Held(d, t)' <=> Held(d, t) /\ t # f.stripe
      BY <1>2, <1>7, FetchEnds, Zenon
    <2>2. \A t \in Stripe : stripe_status'[t] = IF t = f.stripe THEN "FAILED" ELSE stripe_status[t]
      BY <1>7, <2>1, Zenon DEF TypeOK
    <2> QED BY <1>1, <1>3, <1>4, <1>5, <2>1, <2>2 DEF StatusInv, Completes
  <1> QED BY <1>2, <1>6, <1>7, Zenon

\* The base bdev has written the stripe; a handler may be between its steps.
LEMMA BaseWriteHeld ==
    ASSUME TypeOK, HeldInv, StatusInv, NEW c \in Channel, NEW f \in fetches[c],
           BaseStripeWrite(c, f)
    PROVE  HeldInv' /\ StatusInv'
  <1> DEFINE g == Fetch(f.stripe, "written")
  <1>1. /\ fetches' = [fetches EXCEPT ![c] = (@ \ {f}) \cup {g}] /\ f.at = "write"
        /\ UNCHANGED <<stripe_status, stripes_fetched, io, stripe_fetch_queue, running>>
    BY Zenon DEF BaseStripeWrite, shared
  <1>2. g.stripe = f.stripe /\ g \notin fetches[c]
    <2>1. g.stripe = f.stripe /\ g.at = "written"
      BY Zenon DEF Fetch
    <2> QED BY <1>1, <2>1, Zenon DEF HeldInv
  <1> HIDE DEF g
  <1>3. /\ HeldInv'
        /\ \A d \in Channel, t \in Stripe : /\ Held(d, t)' <=> Held(d, t)
                                            /\ Queued(d, t)' <=> Queued(d, t)
    BY <1>1, <1>2, FetchGoesOn, Zenon
  <1>4. \A d \in Channel, t \in Stripe : /\ Awaited(d, t)' <=> Awaited(d, t)
                                         /\ Marking(d, t)' <=> Marking(d, t)
    BY <1>1, Zenon DEF Awaited, Marking
  <1>5. ASSUME NEW d \in Channel, NEW t \in Stripe
        PROVE  Counting(d, t)' <=> Counting(d, t)
    <2>1. \A h \in fetches[d] : h.at = "written" => h \in fetches'[d]
      BY <1>1, Zenon DEF TypeOK
    <2>2. Counting(d, t) => Counting(d, t)'
      BY <1>1, <2>1, Zenon DEF Counting
    <2>3. ASSUME Counting(d, t)'
          PROVE  Counting(d, t)
      <3>1. PICK h \in fetches'[d] :
              /\ h.stripe = t /\ h.at = "written"
              /\ running[d] \in {<<"load", h>>, <<"count", h, stripes_fetched>>}
        BY <1>1, <2>3, Zenon DEF Counting
      <3>2. Completes(d) /\ running[d][2] = h
        BY <3>1 DEF Completes
      <3>3. PICK u \in Stripe : Counting(d, u)
        BY <3>2, Zenon DEF StatusInv
      <3>4. h \in fetches[d]
        BY <3>2, <3>3 DEF Counting
      <3> QED BY <3>1, <3>4, Zenon DEF Counting
    <2> QED BY <2>2, <2>3, Zenon
  <1>6. StatusInv'
    BY <1>1, <1>3, <1>4, <1>5, Zenon DEF StatusInv, Completes
  <1> QED BY <1>3, <1>6, Zenon

\* The completion of the stripe's write marks it FETCHED.
LEMMA WrittenHeld ==
    ASSUME TypeOK, OneReactor, HeldInv, StatusInv, NEW c \in Channel, NEW f \in fetches[c],
           write_stripe_io_completion(c, f)
    PROVE  HeldInv' /\ StatusInv'
  <1>1. /\ \A d \in Channel : running[d] = <<>>
        /\ \A d \in Channel, t \in Stripe : ~ Marking(d, t) /\ ~ Counting(d, t)
    BY IdleAtBegin, Zenon DEF write_stripe_io_completion
  <1>2. /\ f.at = "written" /\ stripe_status' = [stripe_status EXCEPT ![f.stripe] = "FETCHED"]
        /\ running' = [running EXCEPT ![c] = <<"load", f>>]
        /\ UNCHANGED <<stripes_fetched, io, stripe_fetch_queue, fetches>>
    BY Zenon DEF write_stripe_io_completion, Runs
  <1>3. f.stripe \in Stripe /\ Held(c, f.stripe)
    BY DEF TypeOK, FetchRecord, Held
  <1>4. /\ \A d \in Channel : NoRepeat(d)' <=> NoRepeat(d)
        /\ \A d \in Channel : \A t : /\ Queued(d, t)' <=> Queued(d, t)
                                     /\ Held(d, t)' <=> Held(d, t)
                                     /\ Awaited(d, t)' <=> Awaited(d, t)
    BY <1>2, Zenon DEF NoRepeat, Queued, Held, Awaited
  <1>5. HeldInv'
    BY <1>2, <1>4, Zenon DEF HeldInv
  <1>6. \A d \in Channel : running'[d] = IF d = c THEN <<"load", f>> ELSE <<>>
    BY <1>1, <1>2, Zenon DEF TypeOK
  <1>7. ASSUME NEW d \in Channel, NEW t \in Stripe
        PROVE  ~ Marking(d, t)' /\ (Counting(d, t)' <=> d = c /\ t = f.stripe)
    <2>1. CASE d # c
      <3>1. running'[d] = <<>>
        BY <1>6, <2>1, Zenon
      <3> QED BY <2>1, <3>1 DEF Marking, Counting
    <2>2. CASE d = c
      <3>1. running'[d] = <<"load", f>>
        BY <1>6, <2>2, Zenon
      <3>2. ~ Marking(d, t)'
        BY <3>1 DEF Marking
      <3>3. Counting(d, t)' <=> t = f.stripe
        BY <1>2, <2>2, <3>1 DEF Counting
      <3> QED BY <2>2, <3>2, <3>3, Zenon
    <2> QED BY <2>1, <2>2, Zenon
  <1>8. \A t \in Stripe : stripe_status'[t] = IF t = f.stripe THEN "FETCHED" ELSE stripe_status[t]
    BY <1>2, <1>3, Zenon DEF TypeOK
  <1>9. StatusInv'
    <2>1. ASSUME NEW d \in Channel, NEW t \in Stripe
          PROVE  /\ Held(d, t)' => stripe_status'[t] = "INFLIGHT" \/ Counting(d, t)'
                 /\ Held(d, t)' /\ stripe_status'[t] = "INFLIGHT" => Awaited(d, t)'
                 /\ Counting(d, t)' => stripe_status'[t] = "FETCHED"
      <3>1. CASE t = f.stripe
        BY <1>3, <1>4, <1>7, <1>8, <3>1, Zenon DEF HeldInv
      <3>2. CASE t # f.stripe
        BY <1>1, <1>4, <1>7, <1>8, <3>2, Zenon DEF StatusInv
      <3> QED BY <3>1, <3>2, Zenon
    <2>2. \A t \in Stripe : stripe_status'[t] = "INFLIGHT" => \E d \in Channel : Held(d, t)'
      BY <1>4, <1>8, Zenon DEF StatusInv
    <2>3. \A d \in Channel : running'[d] # <<>> => d = c /\ Counting(d, f.stripe)'
      BY <1>3, <1>6, <1>7, Zenon
    <2>4. \A d \in Channel : Completes(d)' => running'[d] # <<>>
      BY Zenon DEF Completes
    <2> QED BY <1>3, <1>7, <2>1, <2>2, <2>3, <2>4 DEF StatusInv
  <1> QED BY <1>5, <1>9, Zenon

\* Loading the counter does not change what is counted.
LEMMA LoadHeld ==
    ASSUME TypeOK, HeldInv, StatusInv, NEW c \in Channel, LoadFetched(c)
    PROVE  HeldInv' /\ StatusInv'
  <1>1. /\ running[c] # <<>> /\ running[c][1] = "load" /\ Completes(c)
        /\ running' = [running EXCEPT ![c] = <<"count", running[c][2], stripes_fetched>>]
        /\ UNCHANGED <<stripe_status, stripes_fetched, io, stripe_fetch_queue, fetches>>
    BY Zenon DEF LoadFetched, Runs, shared, Completes
  <1>2. /\ running'[c] = <<"count", running[c][2], stripes_fetched>>
        /\ \A d \in Channel : d # c => running[d] = <<>> /\ running'[d] = <<>>
    BY <1>1, Zenon DEF TypeOK, StatusInv
  <1>3. \A f \in fetches[c] : running[c] # <<"count", f, stripes_fetched>>
    BY <1>1
  <1>4. PICK u \in Stripe : Counting(c, u)
    BY <1>1, Zenon DEF StatusInv
  <1>5. PICK g \in fetches[c] : g.stripe = u /\ g.at = "written" /\ running[c] = <<"load", g>>
    BY <1>3, <1>4, Zenon DEF Counting
  <1>6. \A f \in fetches[c] :
          /\ running[c] \in {<<"load", f>>, <<"count", f, stripes_fetched>>} <=> f = g
          /\ running'[c] \in {<<"load", f>>, <<"count", f, stripes_fetched>>} <=> f = g
    BY <1>2, <1>5
  <1>7. ASSUME NEW t \in Stripe
        PROVE  Counting(c, t)' <=> Counting(c, t)
    <2>1. Counting(c, t) <=> t = u
      BY <1>5, <1>6 DEF Counting
    <2>2. Counting(c, t)' <=> t = u
      BY <1>1, <1>5, <1>6 DEF Counting
    <2> QED BY <2>1, <2>2, Zenon
  <1>8. \A d \in Channel, t \in Stripe : d # c => ~ Marking(d, t)' /\ ~ Counting(d, t)'
    <2>1. \A j \in Io : <<>> # <<"mark", j>>
      BY Zenon
    <2>2. \A f, n : <<>> # <<"count", f, n>> /\ <<>> # <<"load", f>>
      BY Zenon
    <2> QED BY <1>2, <2>1, <2>2, Zenon DEF Marking, Counting
  <1>9. \A t \in Stripe : ~ Marking(c, t) /\ ~ Marking(c, t)'
    BY <1>1, <1>2 DEF Marking
  <1>10. \A d \in Channel, t \in Stripe : /\ Marking(d, t)' <=> Marking(d, t)
                                          /\ Counting(d, t)' <=> Counting(d, t)
    BY <1>2, <1>7, <1>8, <1>9, NoneRunning, Zenon
  <1>11. /\ \A d \in Channel : NoRepeat(d)' <=> NoRepeat(d)
         /\ \A d \in Channel : \A t : /\ Queued(d, t)' <=> Queued(d, t)
                                      /\ Held(d, t)' <=> Held(d, t)
                                      /\ Awaited(d, t)' <=> Awaited(d, t)
    BY <1>1, Zenon DEF NoRepeat, Queued, Held, Awaited
  <1>12. HeldInv'
    BY <1>1, <1>11, Zenon DEF HeldInv
  <1>13. \A d \in Channel : Completes(d)' => d = c
    BY <1>2, Zenon DEF Completes
  <1>14. \A d \in Channel : Completes(d)' => \E t \in Stripe : Counting(d, t)'
    BY <1>4, <1>7, <1>13, Zenon
  <1>15. \A d, e \in Channel : running'[d] # <<>> /\ running'[e] # <<>> => d = e
    BY <1>2, Zenon
  <1>16. ASSUME NEW d \in Channel, NEW t \in Stripe
         PROVE  /\ Held(d, t)' => stripe_status'[t] = "INFLIGHT" \/ Marking(d, t)' \/ Counting(d, t)'
                /\ Held(d, t)' /\ stripe_status'[t] = "INFLIGHT" => Awaited(d, t)'
                /\ Marking(d, t)' => Queued(d, t)' /\ stripe_status'[t] = "NOT_FETCHED"
                /\ Counting(d, t)' => stripe_status'[t] = "FETCHED"
    BY <1>1, <1>10, <1>11, Zenon DEF StatusInv
  <1>17. \A t \in Stripe : stripe_status'[t] = "INFLIGHT" => \E d \in Channel : Held(d, t)'
    BY <1>1, <1>11, Zenon DEF StatusInv
  <1>18. StatusInv'
    BY <1>14, <1>15, <1>16, <1>17, Zenon DEF StatusInv
  <1> QED BY <1>12, <1>18, Zenon

\* The fetch that is being counted.
LEMMA CountedFetch ==
    ASSUME TypeOK, StatusInv, NEW c \in Channel, CountFetched(c)
    PROVE  \E f \in fetches[c] :
             /\ running[c] = <<"count", f, stripes_fetched>> /\ f.at = "written"
             /\ f.stripe \in Stripe /\ Counting(c, f.stripe) /\ stripe_status[f.stripe] = "FETCHED"
             /\ fetches' = [fetches EXCEPT ![c] = @ \ {f}]
             /\ stripes_fetched' = stripes_fetched + 1
  <1>1. PICK s \in Stripe : Counting(c, s)
    BY Zenon DEF CountFetched, StatusInv, Completes
  <1>2. PICK f \in fetches[c] : /\ f.stripe = s /\ f.at = "written"
                                /\ running[c] = <<"count", f, stripes_fetched>>
    <2>1. \A f : running[c] # <<"load", f>>
      BY DEF CountFetched
    <2> QED BY <1>1, <2>1, Zenon DEF Counting
  <1>3. running[c][2] = f /\ running[c][3] = stripes_fetched
    BY <1>2
  <1>4. stripe_status[s] = "FETCHED"
    BY <1>1, Zenon DEF StatusInv
  <1> QED BY <1>1, <1>2, <1>3, <1>4, Zenon DEF CountFetched

\* The fetched stripe is counted and its fetch released.
LEMMA CountHeld ==
    ASSUME TypeOK, OneReactor, HeldInv, StatusInv, NEW c \in Channel, CountFetched(c)
    PROVE  HeldInv' /\ StatusInv'
  <1>1. PICK f \in fetches[c] :
             /\ running[c] = <<"count", f, stripes_fetched>>
             /\ f.stripe \in Stripe /\ Counting(c, f.stripe) /\ stripe_status[f.stripe] = "FETCHED"
             /\ fetches' = [fetches EXCEPT ![c] = @ \ {f}]
    BY CountedFetch
  <1>2. /\ running' = [running EXCEPT ![c] = <<>>]
        /\ UNCHANGED <<stripe_status, io, stripe_fetch_queue>>
    BY Zenon DEF CountFetched, Runs
  <1>3. \A d \in Channel : d # c => running[d] = <<>>
    BY <1>1 DEF StatusInv
  <1>4. \A d \in Channel : running'[d] = <<>>
    BY <1>2, <1>3, Zenon DEF TypeOK
  <1>5. \A d \in Channel, t \in Stripe : ~ Marking(d, t)' /\ ~ Counting(d, t)'
    BY <1>4, NoneRunningNext, Zenon
  <1>6. /\ HeldInv'
        /\ \A d \in Channel, t \in Stripe : Held(d, t)' <=> Held(d, t) /\ t # f.stripe
    BY <1>1, <1>2, FetchEnds, Zenon
  <1>7. ASSUME NEW d \in Channel, NEW t \in Stripe
        PROVE  ~ Marking(d, t) /\ (Counting(d, t) => t = f.stripe)
    BY <1>1, <1>3, NoneRunning DEF Marking, Counting
  <1>8. \A d \in Channel, t \in Stripe : Awaited(d, t)' <=> Awaited(d, t)
    BY <1>2, Zenon DEF Awaited
  <1>9. StatusInv'
    BY <1>1, <1>2, <1>4, <1>5, <1>6, <1>7, <1>8, Zenon DEF StatusInv, Completes
  <1> QED BY <1>6, <1>9, Zenon

\* A request is served: it did not wait.
LEMMA ServeHeld ==
    ASSUME TypeOK, OneReactor, HeldInv, StatusInv, NEW i \in Io, Serve(i)
    PROVE  HeldInv' /\ StatusInv'
  <1>1. i.ch \in Channel
    BY ChannelsAssumption, Zenon
  <1>2. \A d \in Channel : running[d] = <<>>
    BY <1>1, IdleAtBegin, Zenon DEF Serve
  <1>3. /\ \/ running' = running
           \/ running' = [running EXCEPT ![i.ch] = <<"getbuf", i>>]
        /\ UNCHANGED <<stripe_status, stripes_fetched, stripe_fetch_queue, fetches>>
        /\ io[i.ch] # <<>> /\ i = Head(io[i.ch]) /\ stripe_status[i.stripe] # "INFLIGHT"
        /\ io' = [io EXCEPT ![i.ch] = Tail(@)]
    BY Zenon DEF Serve, Runs, shared, Waits
  <1>4. \A d \in Channel, t \in Stripe : Awaited(d, t) /\ t # i.stripe => Awaited(d, t)'
    BY <1>1, <1>3, AwaitedTail, Zenon
  <1>5. \A d \in Channel : \/ running'[d] = running[d]
                           \/ d = i.ch /\ running'[d] = <<"getbuf", i>>
    BY <1>3, Zenon DEF TypeOK
  <1>6. \A c, d \in Channel : running'[c] # <<>> /\ running'[d] # <<>> => c = d
    BY <1>2, <1>5, Zenon
  <1> QED BY <1>2, <1>3, <1>4, <1>5, <1>6, FetchFrame, Zenon

\* A read has its buffer.
LEMMA GetBufHeld ==
    ASSUME TypeOK, HeldInv, StatusInv, NEW i \in Io, get_buf_for_read_cb(i)
    PROVE  HeldInv' /\ StatusInv'
  <1>1. /\ running[i.ch] = <<"getbuf", i>> /\ running' = [running EXCEPT ![i.ch] = <<>>]
        /\ UNCHANGED <<stripe_status, stripes_fetched, stripe_fetch_queue, fetches, io>>
    BY Zenon DEF get_buf_for_read_cb, Runs, shared
  <1>2. \A d \in Channel, t \in Stripe : Awaited(d, t)' <=> Awaited(d, t)
    BY <1>1, Zenon DEF Awaited
  <1>3. \A d \in Channel : \/ running'[d] = running[d]
                           \/ d = i.ch /\ running'[d] = <<>> /\ running[d] = <<"getbuf", i>>
    BY <1>1, Zenon DEF TypeOK
  <1>4. \A c, d \in Channel : running'[c] # <<>> /\ running'[d] # <<>> => c = d
    BY <1>3, Zenon DEF StatusInv
  <1> QED BY <1>1, <1>2, <1>3, <1>4, FetchFrame, Zenon

\* The steps that only concern a request.
LEMMA RequestHeld ==
    ASSUME HeldInv, StatusInv,
           UNCHANGED <<stripe_status, stripes_fetched, stripe_fetch_queue, fetches, io, running>>
    PROVE  HeldInv' /\ StatusInv'
  <1>1. \A d \in Channel, t \in Stripe : Awaited(d, t)' <=> Awaited(d, t)
    BY Zenon DEF Awaited
  <1>2. \A c, d \in Channel : running'[c] # <<>> /\ running'[d] # <<>> => c = d
    BY Zenon DEF StatusInv
  <1> QED BY <1>1, <1>2, FetchFrame, Zenon

\* HeldInv and StatusInv are inductive on one reactor.
LEMMA HeldNext ==
    ASSUME TypeOK, OneReactor, HeldInv, StatusInv, [Next]_vars
    PROVE  HeldInv' /\ StatusInv'
  <1>1. ASSUME NEW i \in Io, ubi_complete_io(i) \/ BaseClientIo(i)
        PROVE  HeldInv' /\ StatusInv'
    BY <1>1, RequestHeld, Zenon DEF ubi_complete_io, BaseClientIo, shared
  <1>2. CASE UNCHANGED vars
    BY <1>2, RequestHeld, Zenon DEF vars, shared, requests
  <1> QED BY Steps, <1>1, <1>2, SubmitHeld, MarkHeld, ServeHeld, GetBufHeld, StartHeld,
             LoadHeld, CountHeld, CompleteHeld, WrittenHeld, BaseWriteHeld, Zenon

----------------------------------------------------------------------------
\* One reactor: writes and the count.

\* A fetch whose stripe is not written yet is of an INFLIGHT stripe.
LEMMA UnwrittenInflight ==
    ASSUME TypeOK, HeldInv, StatusInv, NEW c \in Channel, NEW f \in fetches[c],
           f.at # "written" \/ running[c] = <<>>
    PROVE  f.stripe \in Stripe /\ stripe_status[f.stripe] = "INFLIGHT"
  <1>1. f.stripe \in Stripe /\ Held(c, f.stripe)
    BY DEF TypeOK, FetchRecord, Held
  <1>2. ~ Marking(c, f.stripe)
    BY <1>1 DEF StatusInv, HeldInv
  <1>3. ~ Counting(c, f.stripe)
    <2>1. CASE running[c] = <<>>
      BY <1>1, <2>1, NoneRunning, Zenon
    <2>2. CASE f.at # "written"
      BY <2>2, Zenon DEF Counting, HeldInv
    <2> QED BY <2>1, <2>2, Zenon
  <1> QED BY <1>1, <1>2, <1>3, Zenon DEF StatusInv

\* On one reactor a FETCHED stripe stays FETCHED, and only the completion of its
\* write makes a stripe FETCHED.
LEMMA FetchedStays ==
    ASSUME TypeOK, OneReactor, HeldInv, StatusInv, [Next]_vars
    PROVE  /\ Fetched \subseteq Fetched'
           /\ \/ Fetched' = Fetched
              \/ \E c \in Channel : \E f \in fetches[c] : write_stripe_io_completion(c, f)
  <1> USE ChannelsAssumption
  <1>s. stripe_status \in [Stripe -> {"NOT_FETCHED", "INFLIGHT", "FAILED", "FETCHED"}]
    BY Zenon DEF TypeOK
  <1>1. ASSUME NEW i \in Io, MarkInflight(i)
        PROVE  Fetched' = Fetched
    <2>1. Marking(i.ch, i.stripe)
      BY <1>1, Zenon DEF MarkInflight, Marking
    <2>2. stripe_status[i.stripe] = "NOT_FETCHED"
      <3>1. \A c \in Channel, s \in Stripe : Marking(c, s) => stripe_status[s] = "NOT_FETCHED"
        BY Zenon DEF StatusInv
      <3> QED BY <2>1, <3>1, Zenon
    <2>3. \A s \in Stripe : stripe_status'[s] = "FETCHED" <=> stripe_status[s] = "FETCHED"
      BY <1>1, <1>s, <2>2 DEF MarkInflight
    <2> QED BY <2>3, Zenon DEF Fetched
  <1>2. ASSUME NEW c \in Channel, NEW f \in fetches[c], ubi_complete_fetch_stripe(c, f)
        PROVE  Fetched' = Fetched
    <2>1. f.stripe \in Stripe /\ stripe_status[f.stripe] = "INFLIGHT"
      BY <1>2, UnwrittenInflight, Zenon DEF ubi_complete_fetch_stripe
    <2>2. \/ stripe_status' = stripe_status
          \/ stripe_status' = [stripe_status EXCEPT ![f.stripe] = "FAILED"]
      BY <1>2, Zenon DEF ubi_complete_fetch_stripe, Failed
    <2> QED BY <1>s, <2>1, <2>2, Zenon DEF Fetched
  <1>3. ASSUME NEW c \in Channel, NEW f \in fetches[c], write_stripe_io_completion(c, f)
        PROVE  Fetched \subseteq Fetched'
    <2>1. f.stripe \in Stripe
      BY DEF TypeOK, FetchRecord
    <2> QED BY <1>3, <1>s, <2>1, Zenon DEF write_stripe_io_completion, Fetched
  <1>4. ASSUME UNCHANGED stripe_status
        PROVE  Fetched' = Fetched
    BY <1>4, Zenon DEF Fetched
  <1>5. \A i \in Io : /\ ubi_submit_request(i) => UNCHANGED stripe_status
                      /\ Serve(i) => UNCHANGED stripe_status
                      /\ get_buf_for_read_cb(i) => UNCHANGED stripe_status
                      /\ ubi_complete_io(i) => UNCHANGED stripe_status
                      /\ BaseClientIo(i) => UNCHANGED stripe_status
    BY Zenon DEF ubi_submit_request, Serve, get_buf_for_read_cb, ubi_complete_io, BaseClientIo, shared
  <1>6. \A c \in Channel : /\ ubi_start_fetch_stripe(c) => UNCHANGED stripe_status
                           /\ LoadFetched(c) => UNCHANGED stripe_status
                           /\ CountFetched(c) => UNCHANGED stripe_status
                           /\ \A f \in fetches[c] : BaseStripeWrite(c, f) => UNCHANGED stripe_status
    BY Zenon DEF ubi_start_fetch_stripe, LoadFetched, CountFetched, BaseStripeWrite, shared
  <1>7. UNCHANGED vars => UNCHANGED stripe_status
    BY Zenon DEF vars, shared
  <1> QED BY Steps, <1>1, <1>2, <1>3, <1>4, <1>5, <1>6, <1>7, Zenon

\* A step leaves every base write of a client in place: a fetch writes its stripe
\* while the stripe is INFLIGHT, and clients write only to FETCHED stripes.
LEMMA BaseNext ==
    ASSUME TypeOK, OneReactor, HeldInv, StatusInv, WriteInv, [Next]_vars
    PROVE  \A s \in Stripe : /\ base[s] \in Io => base'[s] \in Io
                             /\ base'[s] \in Io => stripe_status[s] = "FETCHED"
  <1> USE ChannelsAssumption
  <1>b. base \in [Stripe -> Content]
    BY Zenon DEF TypeOK
  <1>1. ASSUME NEW c \in Channel, NEW f \in fetches[c], BaseStripeWrite(c, f), NEW s \in Stripe
        PROVE  /\ base[s] \in Io => base'[s] \in Io
               /\ base'[s] \in Io => stripe_status[s] = "FETCHED"
    <2>1. f.stripe \in Stripe /\ stripe_status[f.stripe] = "INFLIGHT"
      BY <1>1, UnwrittenInflight, Zenon DEF BaseStripeWrite
    <2>2. base[f.stripe] \notin Io
      BY <2>1, Zenon DEF WriteInv
    <2>3. PICK v \in {Image, Unwritten} : base'[s] = IF s = f.stripe THEN v ELSE base[s]
      BY <1>1, <1>b, <2>1, Zenon DEF BaseStripeWrite
    <2> QED BY <2>2, <2>3, ContentsDiffer, Zenon DEF WriteInv
  <1>2. ASSUME NEW i \in Io, BaseClientIo(i), NEW s \in Stripe
        PROVE  /\ base[s] \in Io => base'[s] \in Io
               /\ base'[s] \in Io => stripe_status[s] = "FETCHED"
    <2>1. CASE i.type = "WRITE"
      <3>1. base'[s] = IF s = i.stripe THEN i ELSE base[s]
        BY <1>2, <1>b, <2>1, Zenon DEF BaseClientIo
      <3>2. stripe_status[i.stripe] = "FETCHED"
        BY <1>2, <2>1, Zenon DEF BaseClientIo, WriteInv
      <3> QED BY <3>1, <3>2, Zenon DEF WriteInv
    <2>2. CASE i.type # "WRITE"
      BY <1>2, <2>2, Zenon DEF BaseClientIo, WriteInv
    <2> QED BY <2>1, <2>2, Zenon
  <1>3. ASSUME UNCHANGED base, NEW s \in Stripe
        PROVE  /\ base[s] \in Io => base'[s] \in Io
               /\ base'[s] \in Io => stripe_status[s] = "FETCHED"
    BY <1>3, Zenon DEF WriteInv
  <1>4. \A i \in Io : /\ ubi_submit_request(i) => UNCHANGED base
                      /\ MarkInflight(i) => UNCHANGED base
                      /\ Serve(i) => UNCHANGED base
                      /\ get_buf_for_read_cb(i) => UNCHANGED base
                      /\ ubi_complete_io(i) => UNCHANGED base
    BY Zenon DEF ubi_submit_request, MarkInflight, Serve, get_buf_for_read_cb, ubi_complete_io
  <1>5. \A c \in Channel : /\ ubi_start_fetch_stripe(c) => UNCHANGED base
                           /\ LoadFetched(c) => UNCHANGED base
                           /\ CountFetched(c) => UNCHANGED base
    BY Zenon DEF ubi_start_fetch_stripe, LoadFetched, CountFetched
  <1>6. \A c \in Channel : \A f \in fetches[c] :
          /\ ubi_complete_fetch_stripe(c, f) => UNCHANGED base
          /\ write_stripe_io_completion(c, f) => UNCHANGED base
    BY Zenon DEF ubi_complete_fetch_stripe, write_stripe_io_completion
  <1>7. UNCHANGED vars => UNCHANGED base
    BY Zenon DEF vars
  <1> QED BY Steps, <1>1, <1>2, <1>3, <1>4, <1>5, <1>6, <1>7, Zenon

\* WriteInv is inductive on one reactor.
LEMMA WriteNext ==
    ASSUME TypeOK, OneReactor, HeldInv, StatusInv, WriteInv, [Next]_vars
    PROVE  WriteInv'
  <1> USE ChannelsAssumption
  <1>p. phase \in [Io -> Phases]
    BY Zenon DEF TypeOK
  <1>s. \A s \in Stripe : stripe_status[s] = "FETCHED" => stripe_status'[s] = "FETCHED"
    BY FetchedStays, Zenon DEF Fetched
  <1>1. ASSUME NEW j \in Io, phase'[j] = "base", j.type = "WRITE"
        PROVE  stripe_status[j.stripe] = "FETCHED"
    <2>1. CASE phase[j] = "base"
      BY <1>1, <2>1, Zenon DEF WriteInv
    <2>2. ASSUME NEW i \in Io, Serve(i), phase[j] # "base"
          PROVE  stripe_status[j.stripe] = "FETCHED"
      <3>1. j = i /\ ~ Refused(i) /\ ~ Waits(i)
        BY <1>1, <1>p, <2>2, Zenon DEF Serve
      <3> QED BY <1>1, <3>1, Zenon DEF Refused, Waits, TriggersFetch, TypeOK
    <2>3. ASSUME NEW i \in Io, get_buf_for_read_cb(i), phase[j] # "base"
          PROVE  stripe_status[j.stripe] = "FETCHED"
      BY <1>1, <1>p, <2>3, Zenon DEF get_buf_for_read_cb, ReadsBase
    <2>4. \A i \in Io : /\ ubi_submit_request(i) => phase'[j] \in {phase[j], "queued"}
                        /\ MarkInflight(i) => phase'[j] \in {phase[j], "queued"}
                        /\ ubi_complete_io(i) => phase'[j] \in {phase[j], "ok"}
                        /\ BaseClientIo(i) => phase'[j] \in {phase[j], "effective"}
      <3>1. \A i \in Io : ubi_submit_request(i) => phase'[j] \in {phase[j], "queued"}
        BY <1>p, Zenon DEF ubi_submit_request, Enqueue
      <3>2. \A i \in Io : MarkInflight(i) => phase'[j] \in {phase[j], "queued"}
        BY <1>p, Zenon DEF MarkInflight, Enqueue
      <3>3. \A i \in Io : ubi_complete_io(i) => phase'[j] \in {phase[j], "ok"}
        BY <1>p, Zenon DEF ubi_complete_io
      <3>4. \A i \in Io : BaseClientIo(i) => phase'[j] \in {phase[j], "effective"}
        BY <1>p, Zenon DEF BaseClientIo
      <3> QED BY <3>1, <3>2, <3>3, <3>4, Zenon
    <2>5. \A c \in Channel : /\ ubi_start_fetch_stripe(c) => UNCHANGED phase
                             /\ LoadFetched(c) => UNCHANGED phase
                             /\ CountFetched(c) => UNCHANGED phase
      BY Zenon DEF ubi_start_fetch_stripe, LoadFetched, CountFetched, requests
    <2>6. \A c \in Channel : \A f \in fetches[c] :
            /\ ubi_complete_fetch_stripe(c, f) => UNCHANGED phase
            /\ write_stripe_io_completion(c, f) => UNCHANGED phase
            /\ BaseStripeWrite(c, f) => UNCHANGED phase
      BY Zenon DEF ubi_complete_fetch_stripe, write_stripe_io_completion, BaseStripeWrite, requests
    <2>7. UNCHANGED vars => UNCHANGED phase
      BY Zenon DEF vars, requests
    <2> QED BY <1>1, <2>1, <2>2, <2>3, <2>4, <2>5, <2>6, <2>7, Steps, Zenon
  <1>2. \A s \in Stripe : base'[s] \in Io => stripe_status[s] = "FETCHED"
    BY BaseNext, Zenon
  <1> QED BY <1>1, <1>2, <1>s, Zenon DEF WriteInv

----------------------------------------------------------------------------
\* Counting.

\* The facts about finite sets that the counting lemmas use.  They are proved
\* below, from the library's theorems.
FiniteSetFacts ==
    /\ Cardinality({}) = 0
    /\ \A S : S \subseteq Stripe => IsFiniteSet(S)
    /\ \A S, x : IsFiniteSet(S) /\ x \notin S => Cardinality(S \cup {x}) = Cardinality(S) + 1

\* CountInv is inductive on one reactor.
LEMMA CountNext ==
    ASSUME FiniteSetFacts, TypeOK, OneReactor, HeldInv, StatusInv, CountInv, [Next]_vars
    PROVE  CountInv'
  <1> USE ChannelsAssumption
  <1>n. stripes_fetched \in Nat /\ running \in [Channel -> Rest]
    BY Zenon DEF TypeOK
  <1>1. ASSUME NEW c \in Channel, NEW f \in fetches[c], write_stripe_io_completion(c, f)
        PROVE  CountInv'
    <2>1. \A d \in Channel : running[d] = <<>>
      BY <1>1, IdleAtBegin, Zenon DEF write_stripe_io_completion
    <2>2. f.stripe \in Stripe /\ stripe_status[f.stripe] = "INFLIGHT"
      BY <2>1, UnwrittenInflight, Zenon
    <2>3. Fetched' = Fetched \cup {f.stripe} /\ f.stripe \notin Fetched
      BY <1>1, <2>2 DEF write_stripe_io_completion, Fetched, TypeOK
    <2>4. IsFiniteSet(Fetched)
      BY DEF Fetched, FiniteSetFacts
    <2>5. Cardinality(Fetched') = Cardinality(Fetched) + 1
      BY <2>3, <2>4, Zenon DEF FiniteSetFacts
    <2>6. ~ Behind
      BY <2>1, Zenon DEF Behind, Completes
    <2>7. running'[c] = <<"load", f>>
      BY <1>1, <1>n, Zenon DEF write_stripe_io_completion, Runs
    <2>8. Behind'
      BY <2>7 DEF Behind, Completes
    <2>9. stripes_fetched' = stripes_fetched
      BY <1>1, Zenon DEF write_stripe_io_completion
    <2> QED BY <1>n, <2>5, <2>6, <2>8, <2>9 DEF CountInv
  <1>2. ASSUME NEW c \in Channel, CountFetched(c)
        PROVE  CountInv'
    <2>1. Behind
      BY <1>2, Zenon DEF CountFetched, Behind, Completes
    <2>2. stripes_fetched' = stripes_fetched + 1 /\ Fetched' = Fetched
      BY <1>2, CountedFetch, Zenon DEF CountFetched, Fetched
    <2>3. \A d \in Channel : d # c => running[d] = <<>>
      BY <1>2, Zenon DEF CountFetched, StatusInv
    <2>4. ~ Behind'
      BY <1>2, <1>n, <2>3, Zenon DEF CountFetched, Runs, Behind, Completes
    <2> QED BY <1>n, <2>1, <2>2, <2>4 DEF CountInv
  <1>3. ASSUME Fetched' = Fetched, UNCHANGED stripes_fetched, UNCHANGED running
        PROVE  CountInv'
    BY <1>3, Zenon DEF CountInv, Behind, Completes
  <1>4. ASSUME Fetched' = Fetched, UNCHANGED stripes_fetched, NEW c \in Channel, NEW r,
               Runs(c, r), r = <<>> \/ r[1] \notin {"load", "count"}, ~ Completes(c)
        PROVE  CountInv'
    <2>1. Behind' <=> Behind
      BY <1>4, <1>n, Zenon DEF Runs, Behind, Completes
    <2> QED BY <1>4, <2>1, Zenon DEF CountInv
  <1>5. ASSUME NEW i \in Io, Fetched' = Fetched,
               ubi_submit_request(i) \/ MarkInflight(i) \/ Serve(i) \/ get_buf_for_read_cb(i)
        PROVE  CountInv'
    <2>1. i.ch \in Channel /\ UNCHANGED stripes_fetched
      BY <1>5, Zenon DEF ubi_submit_request, MarkInflight, Serve, get_buf_for_read_cb, shared
    <2>2. <<"mark", i>>[1] \notin {"load", "count"} /\ <<"getbuf", i>>[1] \notin {"load", "count"}
      BY Zenon
    <2>3. ~ Completes(i.ch)
      <3>1. \/ running[i.ch] = <<>> \/ running[i.ch] = <<"mark", i>> \/ running[i.ch] = <<"getbuf", i>>
        BY <1>5, Zenon DEF ubi_submit_request, MarkInflight, Serve, get_buf_for_read_cb, Begins
      <3> QED BY <2>2, <3>1, Zenon DEF Completes
    <2>4. \/ UNCHANGED running \/ Runs(i.ch, <<"mark", i>>) \/ Runs(i.ch, <<"getbuf", i>>)
          \/ Runs(i.ch, <<>>)
      BY <1>5, Zenon DEF ubi_submit_request, MarkInflight, Serve, get_buf_for_read_cb
    <2> QED BY <1>3, <1>4, <1>5, <2>1, <2>2, <2>3, <2>4, Zenon
  <1>6. \A i \in Io : ubi_complete_io(i) \/ BaseClientIo(i)
          => UNCHANGED stripes_fetched /\ UNCHANGED running
    BY Zenon DEF ubi_complete_io, BaseClientIo, shared
  <1>7. \A c \in Channel : /\ ubi_start_fetch_stripe(c)
                                => UNCHANGED stripes_fetched /\ UNCHANGED running
                           /\ \A f \in fetches[c] :
                                BaseStripeWrite(c, f) \/ ubi_complete_fetch_stripe(c, f)
                                  => UNCHANGED stripes_fetched /\ UNCHANGED running
    BY Zenon DEF ubi_start_fetch_stripe, BaseStripeWrite, ubi_complete_fetch_stripe, shared
  <1>8. UNCHANGED vars => UNCHANGED stripes_fetched /\ UNCHANGED running
    BY Zenon DEF vars, shared
  <1>9. ASSUME NEW c \in Channel, LoadFetched(c)
         PROVE  CountInv'
    <2>1. running'[c] = <<"count", running[c][2], stripes_fetched>>
      BY <1>9, <1>n, Zenon DEF LoadFetched, Runs
    <2>2. Behind /\ Behind'
      BY <1>9, <2>1 DEF LoadFetched, Behind, Completes
    <2>3. UNCHANGED <<stripes_fetched, stripe_status>>
      BY <1>9, Zenon DEF LoadFetched, shared
    <2> QED BY <2>2, <2>3, Zenon DEF CountInv, Fetched
  <1>10. CASE Fetched' = Fetched
    BY <1>9, <1>1, <1>2, <1>3, <1>5, <1>6, <1>7, <1>8, <1>10, Steps, Zenon
  <1> QED BY <1>1, <1>10, FetchedStays, Zenon

\* The invariant holds initially and is kept.
LEMMA IInvInit ==
    ASSUME FiniteSetFacts, Init
    PROVE  IInv
  <1>1. \A c \in Channel : running[c] = <<>> /\ fetches[c] = {} /\ stripe_fetch_queue[c] = <<>>
    BY Zenon DEF Init
  <1>2. \A c \in Channel, s \in Stripe : ~ Marking(c, s) /\ ~ Counting(c, s)
    BY <1>1, NoneRunning, Zenon
  <1>3. \A c \in Channel, s \in Stripe : ~ Queued(c, s) /\ ~ Held(c, s)
    BY <1>1 DEF Queued, Held
  <1>4. \A c \in Channel : NoRepeat(c)
    BY <1>1 DEF NoRepeat
  <1>5. \A s \in Stripe : stripe_status[s] = "NOT_FETCHED" /\ base[s] = OldData
    BY Zenon DEF Init
  <1>6. HeldInv
    BY <1>1, <1>3, <1>4, Zenon DEF HeldInv
  <1>7. StatusInv
    BY <1>1, <1>2, <1>3, <1>5, Zenon DEF StatusInv, Completes
  <1>8. WriteInv
    BY <1>5, ContentsDiffer, Zenon DEF Init, WriteInv
  <1>9. CountInv
    <2>1. Fetched = {} /\ ~ Behind
      BY <1>1, <1>5, Zenon DEF Fetched, Behind, Completes
    <2> QED BY <2>1 DEF CountInv, Init, FiniteSetFacts
  <1> QED BY <1>6, <1>7, <1>8, <1>9, Zenon DEF IInv

\* The setting does not change.
LEMMA ReactorsStay ==
    ASSUME [Next]_vars
    PROVE  OneReactor' <=> OneReactor
  <1>1. \A i \in Io : /\ ubi_submit_request(i) => UNCHANGED reactors
                      /\ MarkInflight(i) => UNCHANGED reactors
                      /\ Serve(i) => UNCHANGED reactors
                      /\ get_buf_for_read_cb(i) => UNCHANGED reactors
                      /\ ubi_complete_io(i) => UNCHANGED reactors
                      /\ BaseClientIo(i) => UNCHANGED reactors
    BY Zenon DEF ubi_submit_request, MarkInflight, Serve, get_buf_for_read_cb, ubi_complete_io,
           BaseClientIo
  <1>2. \A c \in Channel : /\ ubi_start_fetch_stripe(c) => UNCHANGED reactors
                           /\ LoadFetched(c) => UNCHANGED reactors
                           /\ CountFetched(c) => UNCHANGED reactors
    BY Zenon DEF ubi_start_fetch_stripe, LoadFetched, CountFetched
  <1>3. \A c \in Channel : \A f \in fetches[c] :
          /\ ubi_complete_fetch_stripe(c, f) => UNCHANGED reactors
          /\ write_stripe_io_completion(c, f) => UNCHANGED reactors
          /\ BaseStripeWrite(c, f) => UNCHANGED reactors
    BY Zenon DEF ubi_complete_fetch_stripe, write_stripe_io_completion, BaseStripeWrite
  <1>4. UNCHANGED vars => UNCHANGED reactors
    BY Zenon DEF vars
  <1>5. UNCHANGED reactors
    BY Steps, <1>1, <1>2, <1>3, <1>4, Zenon
  <1> QED BY <1>5, Zenon DEF OneReactor

\* On one reactor a step keeps the invariant; on several it says nothing.
LEMMA IInvNext ==
    ASSUME FiniteSetFacts, TypeOK, IInv, [Next]_vars
    PROVE  IInv'
  <1>1. CASE ~ OneReactor
    BY <1>1, ReactorsStay, Zenon DEF IInv
  <1>2. CASE OneReactor
    <2>1. HeldInv /\ StatusInv /\ WriteInv /\ CountInv
      BY <1>2, Zenon DEF IInv
    <2> QED BY <1>2, <2>1, HeldNext, WriteNext, CountNext, Zenon DEF IInv
  <1> QED BY <1>1, <1>2, Zenon

\* What the invariant says of who fetches a stripe.
LEMMA OneHolder == IInv => FetchedByOneChannel
  <1>1. SUFFICES ASSUME IInv, OneReactor, NEW s \in Stripe
                 PROVE  /\ \A c, d \in Channel : Held(c, s) /\ Held(d, s) => c = d
                        /\ Between => (stripe_status[s] = "INFLIGHT"
                                         <=> \E c \in Channel : Held(c, s))
    BY Zenon DEF FetchedByOneChannel
  <1>2. \A c, d \in Channel : Held(c, s) /\ Held(d, s) => c = d
    BY <1>1, Zenon DEF IInv, HeldInv
  <1>3. ASSUME Between, NEW c \in Channel
        PROVE  ~ Marking(c, s) /\ ~ Counting(c, s)
    BY <1>3, NoneRunning, Zenon DEF Between
  <1> QED BY <1>1, <1>2, <1>3, Zenon DEF IInv, StatusInv

\* What it says of who waits.
LEMMA HolderAwaits == IInv => FetchHasWaiter
  <1>1. SUFFICES ASSUME IInv, OneReactor, Between, NEW c \in Channel, NEW s \in Stripe, Held(c, s)
                 PROVE  Awaited(c, s)
    BY Zenon DEF FetchHasWaiter
  <1>2. ~ Marking(c, s) /\ ~ Counting(c, s)
    BY <1>1, NoneRunning, Zenon DEF Between
  <1> QED BY <1>1, <1>2, Zenon DEF IInv, StatusInv

\* A step keeps a client's write.
LEMMA WriteStays ==
    IInv /\ TypeOK /\ [Next]_vars =>
      [\A s \in Stripe : OneReactor /\ base[s] \in Io /\ phase[base[s]] = "ok"
                            => base'[s] \in Io]_vars
  BY BaseNext, Zenon DEF IInv

\* What the invariant says of the counter.
LEMMA CountIsExact == IInv /\ TypeOK => CountExact
  <1>1. SUFFICES ASSUME IInv, TypeOK, OneReactor, Between
                 PROVE  stripes_fetched = Cardinality(Fetched)
    BY Zenon DEF CountExact
  <1>2. ~ Behind
    BY <1>1, Zenon DEF Between, Behind, Completes
  <1>3. stripes_fetched \in Nat
    BY <1>1, Zenon DEF TypeOK
  <1> QED BY <1>1, <1>2, <1>3 DEF IInv, CountInv

\* The two operators under names of their own, and what they mean: the instance
\* below brings in its own copy of FiniteSets.
Finite(S) == IsFiniteSet(S)
Size(S)   == Cardinality(S)

\* A set is finite when a sequence lists it.
LEMMA FiniteMeans ==
  \A S : Finite(S) <=> \E seq \in Seq(S) : \A s \in S : \E n \in 1 .. Len(seq) : seq[n] = s
BY Zenon DEF Finite, IsFiniteSet

\* The size of a set is counted by removing its elements one by one.
LEMMA SizeMeans ==
  \A S : Size(S) = LET CS[T \in SUBSET S] ==
                        IF T = {} THEN 0 ELSE 1 + CS[T \ {CHOOSE x : x \in T}]
                  IN  CS[S]
BY Zenon DEF Size, Cardinality

\* There are finitely many stripes.
LEMMA StripesFinite == Finite(Stripe)
  BY ChannelsAssumption, Zenon DEF Finite

----------------------------------------------------------------------------
\* The theorems about one reactor.
LOCAL INSTANCE FiniteSetTheorems

\* The facts about finite sets that the lemmas assume.
LEMMA FactsHold == FiniteSetFacts
  <1>1. \A S : Finite(S) <=> IsFiniteSet(S)
    BY FiniteMeans, Zenon DEF IsFiniteSet
  <1>2. \A S : Size(S) = Cardinality(S)
    BY SizeMeans, Zenon DEF Cardinality
  <1>3. Size({}) = 0
    BY <1>2, FS_EmptySet, Zenon
  <1>4. \A S : S \subseteq Stripe => Finite(S)
    BY <1>1, StripesFinite, FS_Subset, Zenon
  <1>5. \A S, x : Finite(S) /\ x \notin S => Size(S \cup {x}) = Size(S) + 1
    BY <1>1, <1>2, FS_AddElement, Zenon
  <1> QED BY <1>3, <1>4, <1>5, Zenon DEF FiniteSetFacts, Finite, Size

\* The invariant holds initially.
LEMMA OneReactorInit == Init => IInv
  BY FactsHold, IInvInit, Zenon

\* Every step keeps it.
LEMMA OneReactorNext == TypeOK /\ IInv /\ [Next]_vars => IInv'
  BY FactsHold, IInvNext, Zenon

\* For any number of channels on one reactor: no stripe is fetched by two of them,
\* and between handlers exactly the stripes being fetched are INFLIGHT.
THEOREM FetchedByOneChannelAlways == Spec => []FetchedByOneChannel
  BY OneHolder, TypeInit, TypeNext, OneReactorInit, OneReactorNext, PTL DEF Spec

\* On one reactor a channel never fetches a stripe that none of its own requests
\* waits for.
THEOREM FetchHasWaiterAlways == Spec => []FetchHasWaiter
  BY HolderAwaits, TypeInit, TypeNext, OneReactorInit, OneReactorNext, PTL DEF Spec

\* On one reactor stripes_fetched is the number of FETCHED stripes between handlers.
THEOREM CountExactAlways == Spec => []CountExact
  BY CountIsExact, TypeInit, TypeNext, OneReactorInit, OneReactorNext, PTL DEF Spec

\* On one reactor no step, of whichever channel, overwrites a client's write with
\* the image.
THEOREM WrittenStaysAlways == Spec => WrittenStays
  BY WriteStays, TypeInit, TypeNext, OneReactorInit, OneReactorNext, PTL DEF Spec, WrittenStays
=============================================================================
