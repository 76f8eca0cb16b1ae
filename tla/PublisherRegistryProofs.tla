---------------------- MODULE PublisherRegistryProofs ----------------------
(* Proofs about PublisherRegistry for every set of publishers and sessions and
   every value of the limits. *)
EXTENDS PublisherRegistry, PartialMapsProofs, SequenceTheorems

Distinct(q) == \A i, j \in DOMAIN q : q[i] = q[j] => i = j

\* What holds of one publisher: its registration r, its record rec, and the open
\* sessions o.  The bound on the boots of open sessions is what RecordCarriesFence and
\* OpenNeverDead need to be inductive: a new incarnation has no open session yet.
Good(p, r, rec, o) ==
  /\ r \in PublisherRegistration
  /\ rec \in PublisherRecord
  /\ rec.highest_boot = r.boot
  /\ rec.highest_generation = r.highest_generation
  /\ rec.max_source >= r.max_source
  /\ Distinct(r.live_sessions)
  /\ r.session # NoSession => r.session \in Elements(r.live_sessions)
  /\ \A s \in Session : \A b \in Boot :
       <<p, b, s>> \in o =>
         /\ b <= r.boot
         /\ b = r.boot => r.state # "DEAD" /\ s \in Elements(r.live_sessions)

\* The inductive invariant.
IInv ==
  /\ publishers = [p \in DOMAIN publishers |-> publishers[p]]
  /\ records = [p \in DOMAIN records |-> records[p]]
  /\ DOMAIN publishers \subseteq Publisher
  /\ DOMAIN records = DOMAIN publishers
  /\ now \in Tick
  /\ open \subseteq Publisher \X Boot \X Session
  /\ \A o \in open : o[1] \in DOMAIN publishers
  /\ \A p \in DOMAIN publishers : Good(p, publishers[p], records[p], open)

\* The invariant implies each of the properties the registry promises.
LEMMA IInvImplies == IInv => TypeOK /\ RecordCarriesFence /\ SessionListed /\ OpenNeverDead
<1> SUFFICES ASSUME IInv PROVE TypeOK /\ RecordCarriesFence /\ SessionListed /\ OpenNeverDead
  OBVIOUS
<1>1. /\ \A p \in DOMAIN publishers : publishers[p] \in PublisherRegistration
      /\ \A p \in DOMAIN records : records[p] \in PublisherRecord
  BY DEF IInv, Good
<1>2. TypeOK
  BY <1>1 DEF IInv, TypeOK, IsMap
<1>3. RecordCarriesFence
  BY DEF IInv, Good, RecordCarriesFence
<1>4. SessionListed
  BY DEF IInv, Good, SessionListed, Distinct
<1>5. OpenNeverDead
  <2> SUFFICES ASSUME NEW o \in open
               PROVE  /\ o[1] \in DOMAIN publishers
                      /\ publishers[o[1]].boot = o[2] =>
                           /\ publishers[o[1]].state # "DEAD"
                           /\ o[3] \in Elements(publishers[o[1]].live_sessions)
    BY DEF OpenNeverDead
  <2>1. o[1] \in DOMAIN publishers /\ o[2] \in Boot /\ o[3] \in Session /\ o = <<o[1], o[2], o[3]>>
    BY DEF IInv
  <2> QED
    BY <2>1 DEF IInv, Good
<1> QED
  BY <1>2, <1>3, <1>4, <1>5

-----------------------------------------------------------------------------
(* Sequences of sessions. *)

\* Appending a session that is not listed keeps the list free of repeats.
LEMMA AppendFacts ==
  ASSUME NEW S, NEW q \in Seq(S), NEW s \in S, Distinct(q), s \notin Elements(q)
  PROVE  /\ Append(q, s) \in Seq(S) /\ Distinct(Append(q, s))
         /\ Elements(Append(q, s)) = Elements(q) \cup {s}
<1>1. /\ Append(q, s) \in Seq(S) /\ Len(Append(q, s)) = Len(q) + 1
      /\ \A i \in 1 .. Len(q) : Append(q, s)[i] = q[i]
      /\ Append(q, s)[Len(q) + 1] = s
      /\ DOMAIN q = 1 .. Len(q) /\ Len(q) \in Nat
      /\ DOMAIN Append(q, s) = 1 .. Len(q) + 1
  OBVIOUS
<1>2. Distinct(Append(q, s))
  BY <1>1 DEF Distinct, Elements
<1>3. Elements(Append(q, s)) = Elements(q) \cup {s}
  BY <1>1 DEF Elements
<1> QED
  BY <1>1, <1>2, <1>3, Zenon

\* Removing a session removes exactly it and keeps the list free of repeats.
LEMMA WithoutFacts ==
  ASSUME NEW S, NEW q \in Seq(S), NEW s \in S, Distinct(q)
  PROVE  /\ Without(q, s) \in Seq(S) /\ Distinct(Without(q, s))
         /\ Elements(Without(q, s)) = Elements(q) \ {s}
<1>1. CASE s \notin Elements(q)
  BY <1>1 DEF Without
<1>2. CASE s \in Elements(q)
  <2> DEFINE k == CHOOSE i \in DOMAIN q : q[i] = s
             w == [i \in 1 .. Len(q) - 1 |-> IF i < k THEN q[i] ELSE q[i + 1]]
  <2>1. Len(q) \in Nat /\ DOMAIN q = 1 .. Len(q) /\ \A i \in 1 .. Len(q) : q[i] \in S
    OBVIOUS
  <2>2. k \in 1 .. Len(q) /\ q[k] = s
    BY <1>2, <2>1 DEF Elements
  <2>3. Without(q, s) = w
    BY <1>2 DEF Without
  <2> HIDE DEF k
  <2>4. Len(q) - 1 \in Nat /\ \A i \in 1 .. Len(q) - 1 : w[i] \in S
    BY <2>1, <2>2
  <2>5. w \in Seq(S) /\ DOMAIN w = 1 .. Len(q) - 1
    BY <2>4
  <2>6. /\ \A i \in 1 .. Len(q) - 1 : i < k => w[i] = q[i]
        /\ \A i \in 1 .. Len(q) - 1 : ~(i < k) => w[i] = q[i + 1]
    OBVIOUS
  <2> HIDE DEF w
  <2>7. Distinct(w)
    <3> SUFFICES ASSUME NEW i \in 1 .. Len(q) - 1, NEW j \in 1 .. Len(q) - 1, w[i] = w[j]
                 PROVE  i = j
      BY <2>5 DEF Distinct
    <3> DEFINE m == IF i < k THEN i ELSE i + 1
               n == IF j < k THEN j ELSE j + 1
    <3>1. m \in DOMAIN q /\ n \in DOMAIN q /\ q[m] = w[i] /\ q[n] = w[j]
      BY <2>1, <2>2, <2>6
    <3>2. m = n
      BY <3>1 DEF Distinct
    <3> QED
      BY <2>1, <2>2, <3>2
  <2>8. ASSUME NEW x \in Elements(w) PROVE x \in Elements(q) /\ x # s
    <3>1. PICK i \in 1 .. Len(q) - 1 : w[i] = x
      BY <2>5, <2>8 DEF Elements
    <3> DEFINE m == IF i < k THEN i ELSE i + 1
    <3>2. m \in DOMAIN q /\ q[m] = x /\ m # k
      BY <2>1, <2>2, <2>6, <3>1
    <3>3. x # s
      BY <2>1, <2>2, <3>2 DEF Distinct
    <3> QED
      BY <3>2, <3>3 DEF Elements
  <2>9. ASSUME NEW x \in Elements(q), x # s PROVE x \in Elements(w)
    <3>1. PICK j \in 1 .. Len(q) : q[j] = x
      BY <2>1, <2>9 DEF Elements
    <3>2. CASE j < k
      <4>1. j \in 1 .. Len(q) - 1 /\ w[j] = q[j]
        BY <2>1, <2>2, <2>6, <3>1, <3>2
      <4> QED
        BY <2>5, <3>1, <4>1 DEF Elements
    <3>3. CASE j > k
      <4>1. j - 1 \in 1 .. Len(q) - 1 /\ ~(j - 1 < k) /\ (j - 1) + 1 = j
        BY <2>1, <2>2, <3>1, <3>3
      <4>2. w[j - 1] = q[j]
        BY <2>6, <4>1
      <4> QED
        BY <2>5, <3>1, <4>1, <4>2 DEF Elements
    <3> QED
      BY <2>1, <2>2, <2>9, <3>1, <3>2, <3>3
  <2> QED
    BY <2>3, <2>5, <2>7, <2>8, <2>9
<1> QED
  BY <1>1, <1>2

-----------------------------------------------------------------------------
(* From one publisher to the registry. *)

\* A step that rewrites one publisher's entries well, and opens no session of
\* another publisher, preserves the invariant.
LEMMA UpdateOne ==
  ASSUME IInv, NEW p \in Publisher, NEW r, NEW rec,
         publishers' = Put(publishers, p, r), records' = Put(records, p, rec),
         now' \in Tick, open' \subseteq Publisher \X Boot \X Session,
         \A o \in open' : o[1] # p => o \in open,
         Good(p, r, rec, open')
  PROVE  IInv'
<1>1. /\ DOMAIN publishers' = DOMAIN publishers \cup {p}
      /\ publishers' = [q \in DOMAIN publishers' |-> publishers'[q]]
      /\ publishers'[p] = r
      /\ \A q \in DOMAIN publishers : q # p => publishers'[q] = publishers[q]
  BY Zenon DEF Put
<1>2. /\ DOMAIN records' = DOMAIN records \cup {p}
      /\ records' = [q \in DOMAIN records' |-> records'[q]]
      /\ records'[p] = rec
      /\ \A q \in DOMAIN records : q # p => records'[q] = records[q]
  BY DEF Put
<1>3. DOMAIN publishers' \subseteq Publisher /\ DOMAIN records' = DOMAIN publishers'
  BY <1>1, <1>2 DEF IInv
<1>4. \A o \in open' : o[1] \in DOMAIN publishers'
  BY <1>1 DEF IInv
<1>5. ASSUME NEW q \in DOMAIN publishers' PROVE Good(q, publishers'[q], records'[q], open')
  <2>1. CASE q = p
    BY <1>1, <1>2, <2>1
  <2>2. CASE q # p
    <3>1. /\ q \in DOMAIN publishers
          /\ publishers'[q] = publishers[q] /\ records'[q] = records[q]
      BY <1>1, <1>2, <1>5, <2>2 DEF IInv
    <3>2. Good(q, publishers[q], records[q], open)
      BY <3>1 DEF IInv
    <3>3. \A s \in Session : \A b \in Boot : <<q, b, s>> \in open' => <<q, b, s>> \in open
      BY <2>2
    <3> QED
      BY <3>1, <3>2, <3>3, Zenon DEF Good
  <2> QED
    BY <2>1, <2>2
<1> QED
  BY <1>1, <1>2, <1>3, <1>4, <1>5 DEF IInv

\* The same for a step that rewrites the registration of a known publisher.
LEMMA UpdateRegistration ==
  ASSUME IInv, NEW p \in DOMAIN publishers, NEW r,
         publishers' = [publishers EXCEPT ![p] = r], records' = records, now' = now,
         open' \subseteq open, Good(p, r, records[p], open')
  PROVE  IInv'
<1>1. publishers' = Put(publishers, p, r)
  BY Zenon DEF Put, IInv
<1>2. records' = Put(records, p, records[p])
  BY Zenon DEF Put, IInv
<1>3. now' \in Tick /\ open' \subseteq Publisher \X Boot \X Session /\ p \in Publisher
  BY DEF IInv
<1> QED
  BY <1>1, <1>2, <1>3, UpdateOne

\* A step that rewrites every registration well preserves the invariant.
LEMMA UpdateAll ==
  ASSUME IInv, publishers' = [p \in DOMAIN publishers |-> publishers'[p]],
         DOMAIN publishers' = DOMAIN publishers, records' = records, now' \in Tick,
         open' \subseteq open,
         \A p \in DOMAIN publishers : Good(p, publishers'[p], records[p], open')
  PROVE  IInv'
BY DEF IInv

-----------------------------------------------------------------------------
(* One lemma per operation: it preserves the invariant. *)

\* bind_session(): the record and the registration it writes agree, and its
\* second pair of checks never fails once the first has passed.
LEMMA BindSessionIInv ==
  ASSUME IInv, NEW p \in Publisher, NEW b \in Boot, NEW source \in Source, NEW s \in Session,
         BindSession(p, b, source, s)
  PROVE  IInv'
<1> DEFINE r   == BoundRegistration(p, b, source, s)
           rec == BoundRecord(p, b, source)
<1>1. p \in DOMAIN records => b >= records[p].highest_boot
  BY Zenon DEF BindSession
<1>2. p \in DOMAIN publishers <=> p \in DOMAIN records
  BY DEF IInv
<1>3. p \in DOMAIN publishers => Good(p, publishers[p], records[p], open)
  BY DEF IInv
<1>4. IF p \in DOMAIN publishers
      THEN b >= publishers[p].boot ELSE Cardinality(DOMAIN publishers) < MaxPublishers
  <2>1. IF p \in DOMAIN records
        THEN b >= records[p].highest_boot ELSE Cardinality(DOMAIN records) < MaxPublishers
    BY DEF BindSession
  <2> QED
    BY <1>2, <1>3, <2>1, Zenon DEF IInv, Good
<1>5. /\ publishers' = Put(publishers, p, r) /\ records' = Put(records, p, rec)
      /\ now' = now /\ open' = open \cup {<<p, b, s>>}
  BY <1>4 DEF BindSession
<1>6. Good(p, r, rec, open')
  <2>1. CASE p \notin DOMAIN publishers
    <3>1. /\ r = [boot |-> b, session |-> s, live_sessions |-> <<s>>, state |-> "LIVE",
                  max_source |-> source, last_seen |-> now, highest_generation |-> 0]
          /\ rec = [highest_boot |-> b, highest_generation |-> 0, max_source |-> source]
      BY <1>2, <2>1 DEF BoundRegistration, BoundRecord
    <3>2. r \in PublisherRegistration /\ rec \in PublisherRecord
      BY <3>1, BoundsAssumption DEF PublisherRegistration, PublisherRecord, Generation, IInv
    <3>3. Distinct(<<s>>) /\ Elements(<<s>>) = {s}
      BY DEF Distinct, Elements
    <3>4. \A t \in Session : \A c \in Boot : <<p, c, t>> \in open' => c = b /\ t = s
      BY <1>5, <2>1 DEF IInv
    <3> QED
      BY <3>1, <3>2, <3>3, <3>4, SourceAssumption DEF Good, Boot
  <2>2. CASE p \in DOMAIN publishers
    <3> DEFINE u == publishers[p]
               live == IF b > u.boot THEN <<>> ELSE u.live_sessions
               listed == IF s \in Elements(live) THEN live ELSE Append(live, s)
    <3>1. u \in PublisherRegistration /\ records[p] \in PublisherRecord /\ Distinct(u.live_sessions)
      BY <1>3, <2>2, Zenon DEF Good
    <3>2. live \in Seq(Session) /\ Distinct(live)
      BY <3>1 DEF PublisherRegistration, Distinct
    <3>3. r = [u EXCEPT !.boot = b, !.highest_generation = IF b > u.boot THEN 0 ELSE @,
                        !.live_sessions = listed, !.session = s, !.state = "LIVE",
                        !.last_seen = now]
      BY <2>2 DEF BoundRegistration
    <3> HIDE DEF live, r
    <3>4. /\ listed \in Seq(Session) /\ Distinct(listed)
          /\ Elements(listed) = Elements(live) \cup {s}
      BY <3>2, AppendFacts
    <3> HIDE DEF listed
    <3>5. /\ r \in PublisherRegistration /\ r.boot = b /\ r.session = s /\ r.state = "LIVE"
          /\ r.live_sessions = listed /\ r.max_source = u.max_source
          /\ r.highest_generation = IF b > u.boot THEN 0 ELSE u.highest_generation
      <4>1. now \in Tick /\ 0 \in Generation
        BY BoundsAssumption DEF IInv, Generation
      <4> QED
        BY <3>1, <3>3, <3>4, <4>1, Zenon DEF PublisherRegistration
    <3>6. /\ rec \in PublisherRecord /\ rec.highest_boot = b
          /\ rec.highest_generation
               = IF b > records[p].highest_boot THEN 0 ELSE records[p].highest_generation
          /\ rec.max_source = Higher(source, records[p].max_source)
      BY <1>2, <2>2, <3>1, BoundsAssumption
         DEF BoundRecord, PublisherRecord, Generation, Higher
    <3> HIDE DEF rec
    <3>7. rec.highest_generation = r.highest_generation
      BY <1>3, <2>2, <3>5, <3>6 DEF Good
    <3>8. rec.max_source >= r.max_source
      <4>1. records[p].max_source \in Nat /\ u.max_source \in Nat /\ source \in Nat
        BY <3>1, SourceAssumption, Zenon DEF PublisherRegistration, PublisherRecord
      <4>2. records[p].max_source >= u.max_source
        BY <1>3, <2>2 DEF Good
      <4> QED
        BY <3>5, <3>6, <4>1, <4>2 DEF Higher
    <3>9. ASSUME NEW t \in Session, NEW c \in Boot, <<p, c, t>> \in open'
          PROVE  c <= b /\ (c = b => t \in Elements(listed))
      <4>1. CASE <<p, c, t>> \in open
        BY <1>3, <1>4, <2>2, <3>1, <3>4, <4>1 DEF Good, live, Boot, PublisherRegistration
      <4>2. CASE c = b /\ t = s
        BY <3>4, <4>2 DEF Boot
      <4> QED
        BY <1>5, <3>9, <4>1, <4>2
    <3> QED
      BY <3>4, <3>5, <3>6, <3>7, <3>8, <3>9, Zenon DEF Good
  <2> QED
    BY <2>1, <2>2
<1> HIDE DEF r, rec
<1>7. /\ now' \in Tick /\ open' \subseteq Publisher \X Boot \X Session
      /\ \A o \in open' : o[1] # p => o \in open
  BY <1>5 DEF IInv
<1> QED
  BY <1>5, <1>6, <1>7, UpdateOne, Zenon

\* What Ended() leaves of a registration, given distinct remaining sessions.
LEMMA EndedFacts ==
  ASSUME IInv, NEW r \in PublisherRegistration, NEW q \in Seq(Session), NEW e,
         Distinct(q), r.session # NoSession /\ r.session # e => r.session \in Elements(q)
  PROVE  LET n == Ended(r, q, e) IN
         /\ n \in PublisherRegistration
         /\ n.boot = r.boot /\ n.highest_generation = r.highest_generation
         /\ n.max_source = r.max_source /\ n.live_sessions = q
         /\ n.state = IF q = <<>> THEN "DEAD" ELSE r.state
         /\ n.session # NoSession => n.session \in Elements(q)
<1> DEFINE ses == IF r.session # e THEN r.session
                  ELSE IF q = <<>> THEN NoSession ELSE q[Len(q)]
           st  == IF q = <<>> THEN "DEAD" ELSE r.state
           ls  == IF q = <<>> THEN now ELSE r.last_seen
           n   == Ended(r, q, e)
<1>1. n = [r EXCEPT !.live_sessions = q, !.session = ses, !.state = st, !.last_seen = ls]
  BY DEF Ended, PublisherRegistration
<1>2. q # <<>> => Len(q) \in DOMAIN q /\ q[Len(q)] \in Session
  OBVIOUS
<1>3. ses \in Session \cup {NoSession} /\ (ses # NoSession => ses \in Elements(q))
  BY <1>2 DEF Elements, PublisherRegistration
<1>4. st \in {"LIVE", "IDLE", "DEAD"} /\ ls \in Tick
  BY DEF PublisherRegistration, IInv
<1> HIDE DEF ses, n, ls
<1> SUFFICES /\ n \in PublisherRegistration
             /\ n.boot = r.boot /\ n.highest_generation = r.highest_generation
             /\ n.max_source = r.max_source /\ n.live_sessions = q
             /\ n.state = st
             /\ n.session # NoSession => n.session \in Elements(q)
  BY DEF n
<1> HIDE DEF st
<1> QED
  BY <1>1, <1>3, <1>4, Zenon DEF PublisherRegistration

\* end_specific_session(): the other open sessions of the incarnation remain
\* listed, so the incarnation does not die while one is open.
LEMMA EndSpecificSessionIInv ==
  ASSUME IInv, NEW p \in Publisher, NEW b \in Boot, NEW s \in Session,
         EndSpecificSession(p, b, s)
  PROVE  IInv'
<1> DEFINE u == publishers[p]
           q == Without(u.live_sessions, s)
           r == Ended(u, q, s)
<1>1. /\ p \in DOMAIN publishers /\ u.boot = b /\ open' = open \ {<<p, b, s>>}
      /\ records' = records /\ now' = now
  BY DEF EndSpecificSession, IInv
<1>2. Good(p, u, records[p], open)
  BY <1>1 DEF IInv
<1>3. u \in PublisherRegistration /\ Distinct(u.live_sessions) /\ u.live_sessions \in Seq(Session)
  BY <1>2 DEF Good, PublisherRegistration
<1>4. q \in Seq(Session) /\ Distinct(q) /\ Elements(q) = Elements(u.live_sessions) \ {s}
  BY <1>3, WithoutFacts
<1> HIDE DEF q
<1>5. u.session # NoSession /\ u.session # s => u.session \in Elements(q)
  BY <1>2, <1>4 DEF Good
<1>6. /\ r \in PublisherRegistration
      /\ r.boot = u.boot /\ r.highest_generation = u.highest_generation
      /\ r.max_source = u.max_source /\ r.live_sessions = q
      /\ r.state = IF q = <<>> THEN "DEAD" ELSE u.state
      /\ r.session # NoSession => r.session \in Elements(q)
  BY <1>3, <1>4, <1>5, EndedFacts, ZenonT(60)
<1>7. publishers' = [publishers EXCEPT ![p] = r]
  BY DEF EndSpecificSession, q
<1> HIDE DEF r, u
<1>8. ASSUME NEW t \in Session, NEW c \in Boot, <<p, c, t>> \in open'
      PROVE  c <= r.boot /\ (c = r.boot => r.state # "DEAD" /\ t \in Elements(q))
  <2>1. <<p, c, t>> \in open /\ (c = b => t # s)
    BY <1>1, <1>8
  <2>2. c <= u.boot /\ (c = u.boot => u.state # "DEAD" /\ t \in Elements(u.live_sessions))
    BY <1>2, <2>1 DEF Good
  <2>3. t \in Elements(q) => q # <<>>
    BY DEF Elements
  <2> QED
    BY <1>1, <1>4, <1>6, <2>1, <2>2, <2>3
<1>9. Good(p, r, records[p], open')
  BY <1>2, <1>4, <1>6, <1>8 DEF Good
<1> QED
  BY <1>1, <1>7, <1>9, UpdateRegistration, Zenon

\* end_session(): no session of the incarnation stays open.
LEMMA EndSessionIInv ==
  ASSUME IInv, NEW p \in Publisher, NEW b \in Boot, EndSession(p, b)
  PROVE  IInv'
<1> DEFINE u == publishers[p]
           r == Ended(u, <<>>, u.session)
<1>1. /\ p \in DOMAIN publishers /\ u.boot = b
      /\ open' = {o \in open : o[1] # p \/ o[2] # b}
      /\ publishers' = [publishers EXCEPT ![p] = r]
      /\ records' = records /\ now' = now
  BY DEF EndSession
<1>2. Good(p, u, records[p], open)
  BY <1>1 DEF IInv
<1>3. u \in PublisherRegistration /\ <<>> \in Seq(Session) /\ Distinct(<<>>)
  BY <1>2 DEF Good, Distinct
<1>4. /\ r \in PublisherRegistration
      /\ r.boot = u.boot /\ r.highest_generation = u.highest_generation
      /\ r.max_source = u.max_source /\ r.live_sessions = <<>>
      /\ r.session # NoSession => r.session \in Elements(<<>>)
  BY <1>3, EndedFacts, ZenonT(60)
<1> HIDE DEF r, u
<1>5. \A t \in Session : \A c \in Boot :
        <<p, c, t>> \in open' => <<p, c, t>> \in open /\ c # u.boot
  BY <1>1
<1>6. Good(p, r, records[p], open')
  BY <1>2, <1>3, <1>4, <1>5 DEF Good
<1> QED
  BY <1>1, <1>6, UpdateRegistration, Zenon

\* touch(), require_revalidation() and the two sweeps change only the liveness
\* state, the session published through and the last contact, and never make a
\* registration DEAD.
LEMMA LivenessGood ==
  ASSUME IInv, NEW p \in DOMAIN publishers, NEW r \in PublisherRegistration,
         r.boot = publishers[p].boot,
         r.highest_generation = publishers[p].highest_generation,
         r.max_source = publishers[p].max_source,
         r.live_sessions = publishers[p].live_sessions,
         r.session \in {publishers[p].session, NoSession},
         r.state = "DEAD" => publishers[p].state = "DEAD",
         NEW o \in SUBSET open
  PROVE  Good(p, r, records[p], o)
BY DEF IInv, Good

LEMMA TouchIInv ==
  ASSUME IInv, NEW p \in Publisher, NEW b \in Boot, Touch(p, b)
  PROVE  IInv'
<1> DEFINE r == Touched(publishers[p])
<1>1. /\ p \in DOMAIN publishers /\ publishers' = [publishers EXCEPT ![p] = r]
      /\ records' = records /\ now' = now /\ open' = open
  BY DEF Touch
<1>2. publishers[p] \in PublisherRegistration /\ now \in Tick
  BY <1>1 DEF IInv, Good
<1>3. /\ r \in PublisherRegistration /\ r.boot = publishers[p].boot
      /\ r.highest_generation = publishers[p].highest_generation
      /\ r.max_source = publishers[p].max_source
      /\ r.live_sessions = publishers[p].live_sessions
      /\ r.session = publishers[p].session
      /\ r.state = "DEAD" => publishers[p].state = "DEAD"
  BY <1>2, Zenon DEF Touched, PublisherRegistration
<1> HIDE DEF r
<1> QED
  BY <1>1, <1>3, LivenessGood, UpdateRegistration, Zenon

LEMMA RequireRevalidationIInv ==
  ASSUME IInv, NEW p \in Publisher, RequireRevalidation(p)
  PROVE  IInv'
<1> DEFINE r == [publishers[p] EXCEPT !.state = "IDLE", !.session = NoSession]
<1>1. /\ p \in DOMAIN publishers /\ publishers' = [publishers EXCEPT ![p] = r]
      /\ records' = records /\ now' = now /\ open' = open
  BY Zenon DEF RequireRevalidation, IInv
<1>2. publishers[p] \in PublisherRegistration
  BY <1>1 DEF IInv, Good
<1>3. /\ r \in PublisherRegistration /\ r.boot = publishers[p].boot
      /\ r.highest_generation = publishers[p].highest_generation
      /\ r.max_source = publishers[p].max_source
      /\ r.live_sessions = publishers[p].live_sessions
      /\ r.session = NoSession /\ r.state = "IDLE"
  BY <1>2, Zenon DEF PublisherRegistration
<1> HIDE DEF r
<1> QED
  BY <1>1, <1>3, LivenessGood, UpdateRegistration, Zenon

LEMMA ExpireLivenessIInv ==
  ASSUME IInv, ExpireLiveness
  PROVE  IInv'
<1>1. /\ DOMAIN publishers' = DOMAIN publishers
      /\ publishers' = [p \in DOMAIN publishers |-> publishers'[p]]
      /\ records' = records /\ now' = now /\ open' = open
      /\ \A p \in DOMAIN publishers :
           publishers'[p] \in {publishers[p], [publishers[p] EXCEPT !.state = "IDLE"]}
  BY DEF ExpireLiveness
<1>2. ASSUME NEW p \in DOMAIN publishers PROVE Good(p, publishers'[p], records[p], open')
  <2>1. publishers[p] \in PublisherRegistration
    BY DEF IInv, Good
  <2>2. /\ publishers'[p] \in PublisherRegistration /\ publishers'[p].boot = publishers[p].boot
        /\ publishers'[p].highest_generation = publishers[p].highest_generation
        /\ publishers'[p].max_source = publishers[p].max_source
        /\ publishers'[p].live_sessions = publishers[p].live_sessions
        /\ publishers'[p].session = publishers[p].session
        /\ publishers'[p].state \in {"IDLE", publishers[p].state}
    BY <1>1, <2>1 DEF PublisherRegistration
  <2> QED
    BY <1>1, <2>2, LivenessGood
<1> QED
  BY <1>1, <1>2, UpdateAll DEF IInv

LEMMA ClearSessionsIInv ==
  ASSUME IInv, ClearSessions
  PROVE  IInv'
<1>1. /\ DOMAIN publishers' = DOMAIN publishers
      /\ publishers' = [p \in DOMAIN publishers |-> publishers'[p]]
      /\ records' = records /\ now' = now /\ open' = {}
      /\ \A p \in DOMAIN publishers :
           publishers'[p] = [publishers[p] EXCEPT !.state = "IDLE", !.session = NoSession,
                                                  !.last_seen = TickNone]
  BY Zenon DEF ClearSessions
<1>2. ASSUME NEW p \in DOMAIN publishers PROVE Good(p, publishers'[p], records[p], open')
  <2> DEFINE r == publishers'[p]
  <2>1. publishers[p] \in PublisherRegistration /\ TickNone \in Tick
    BY BoundsAssumption DEF IInv, Good, Tick, TickNone
  <2>2. r = [publishers[p] EXCEPT !.state = "IDLE", !.session = NoSession,
                                  !.last_seen = TickNone]
    BY <1>1, Zenon
  <2> HIDE DEF r
  <2>3. /\ r \in PublisherRegistration /\ r.boot = publishers[p].boot
        /\ r.highest_generation = publishers[p].highest_generation
        /\ r.max_source = publishers[p].max_source
        /\ r.live_sessions = publishers[p].live_sessions
        /\ r.session = NoSession /\ r.state = "IDLE"
    BY <2>1, <2>2, Zenon DEF PublisherRegistration
  <2>4. open' \in SUBSET open
    BY <1>1, Zenon
  <2>5. Good(p, r, records[p], open')
    BY <2>3, <2>4, LivenessGood
  <2> QED
    BY <2>5 DEF r
<1> QED
  BY <1>1, <1>2, UpdateAll, Zenon DEF IInv

\* restore_records(): the registration is rebuilt from the record, fence included.
LEMMA RestoreRecordsIInv ==
  ASSUME IInv, RestoreRecords
  PROVE  IInv'
<1>1. /\ DOMAIN publishers' = DOMAIN publishers
      /\ publishers' = [p \in DOMAIN publishers |-> publishers'[p]]
      /\ records' = records /\ now' = now /\ open' = {}
      /\ \A p \in DOMAIN publishers : publishers'[p] = Restored(records[p])
  BY DEF RestoreRecords, IInv
<1>2. ASSUME NEW p \in DOMAIN publishers PROVE Good(p, publishers'[p], records[p], open')
  <2>1. records[p] \in PublisherRecord /\ TickNone \in Tick /\ <<>> \in Seq(Session)
    BY BoundsAssumption DEF IInv, Good, Tick, TickNone
  <2>2. records[p].max_source \in Nat
    BY <2>1, SourceAssumption, Zenon DEF PublisherRecord
  <2>3. /\ Restored(records[p]) \in PublisherRegistration
        /\ Restored(records[p]).boot = records[p].highest_boot
        /\ Restored(records[p]).highest_generation = records[p].highest_generation
        /\ Restored(records[p]).max_source = records[p].max_source
        /\ Restored(records[p]).live_sessions = <<>>
        /\ Restored(records[p]).session = NoSession
    BY <2>1 DEF Restored, PublisherRegistration, PublisherRecord
  <2>4. Distinct(<<>>)
    BY DEF Distinct
  <2>5. records[p].max_source >= records[p].max_source
    BY <2>2
  <2> QED
    BY <1>1, <2>1, <2>3, <2>4, <2>5 DEF Good
<1> QED
  BY <1>1, <1>2, UpdateAll DEF IInv

\* observe_evidence_generation(): both marks move together.
LEMMA ObserveEvidenceGenerationIInv ==
  ASSUME IInv, NEW p \in Publisher, NEW b \in Boot, NEW g \in Generation,
         ObserveEvidenceGeneration(p, b, g)
  PROVE  IInv'
<1> DEFINE r   == [publishers[p] EXCEPT !.highest_generation = g]
           rec == [records[p] EXCEPT !.highest_generation = g]
<1>1. p \in DOMAIN publishers /\ p \in DOMAIN records
  BY DEF ObserveEvidenceGeneration, IInv
<1>2. /\ publishers' = [publishers EXCEPT ![p] = r]
      /\ records' = [records EXCEPT ![p] = rec]
      /\ now' = now /\ open' = open
  BY <1>1 DEF ObserveEvidenceGeneration, IInv
<1>3. publishers' = Put(publishers, p, r) /\ records' = Put(records, p, rec)
  BY <1>1, <1>2, ZenonT(60) DEF Put, IInv
<1>4. Good(p, publishers[p], records[p], open)
  BY <1>1 DEF IInv
<1>5. /\ r \in PublisherRegistration /\ r.boot = publishers[p].boot
      /\ r.highest_generation = g /\ r.max_source = publishers[p].max_source
      /\ r.live_sessions = publishers[p].live_sessions
      /\ r.session = publishers[p].session /\ r.state = publishers[p].state
  BY <1>4 DEF Good, PublisherRegistration
<1>6. /\ rec \in PublisherRecord /\ rec.highest_boot = records[p].highest_boot
      /\ rec.highest_generation = g /\ rec.max_source = records[p].max_source
  BY <1>4 DEF Good, PublisherRecord
<1> HIDE DEF r, rec
<1>7. Good(p, r, rec, open')
  BY <1>2, <1>4, <1>5, <1>6 DEF Good
<1>8. /\ now' \in Tick /\ open' \subseteq Publisher \X Boot \X Session
      /\ \A o \in open' : o[1] # p => o \in open
  BY <1>2 DEF IInv
<1> QED
  BY <1>3, <1>7, <1>8, UpdateOne

LEMMA InitIInv == Init => IInv
BY BoundsAssumption DEF Init, IInv, Tick, EmptyMap

\* Every step preserves the invariant.
LEMMA NextIInv == IInv /\ [Next]_vars => IInv'
<1> SUFFICES ASSUME IInv, [Next]_vars PROVE IInv'
  OBVIOUS
<1>1. ASSUME NEW p \in Publisher, NEW b \in Boot, NEW s \in Session,
             \/ \E source \in Source : BindSession(p, b, source, s)
             \/ EndSpecificSession(p, b, s)
      PROVE  IInv'
  BY <1>1, BindSessionIInv, EndSpecificSessionIInv
<1>2. ASSUME NEW p \in Publisher, NEW b \in Boot,
             \/ EndSession(p, b) \/ Touch(p, b)
             \/ \E g \in Generation : ObserveEvidenceGeneration(p, b, g)
      PROVE  IInv'
  BY <1>2, EndSessionIInv, TouchIInv, ObserveEvidenceGenerationIInv
<1>3. ASSUME NEW p \in Publisher, RequireRevalidation(p) PROVE IInv'
  BY <1>3, RequireRevalidationIInv
<1>4. CASE ExpireLiveness \/ ClearSessions \/ RestoreRecords
  BY <1>4, ExpireLivenessIInv, ClearSessionsIInv, RestoreRecordsIInv
<1>5. CASE AdvanceClock
  BY <1>5, BoundsAssumption DEF AdvanceClock, IInv, Tick
<1>6. CASE UNCHANGED vars
  BY <1>6 DEF vars, IInv
<1> QED
  BY <1>1, <1>2, <1>3, <1>4, <1>5, <1>6 DEF Next

-----------------------------------------------------------------------------
(* The theorems. *)

\* The durable record and the volatile registration never part, sessions are
\* listed once, and no incarnation with an open connection is DEAD.
THEOREM RegistryHolds ==
  Spec => [](TypeOK /\ RecordCarriesFence /\ SessionListed /\ OpenNeverDead)
BY InitIInv, NextIInv, IInvImplies, PTL DEF Spec

\* The types and equalities the action property is computed from.
LEMMA FenceFacts ==
  ASSUME IInv, NEW p \in DOMAIN publishers
  PROVE  /\ p \in DOMAIN records
         /\ publishers[p] \in PublisherRegistration /\ records[p] \in PublisherRecord
         /\ records[p].max_source >= publishers[p].max_source
         /\ records[p].highest_boot = publishers[p].boot
         /\ records[p].highest_generation = publishers[p].highest_generation
         /\ records[p].highest_boot \in Nat /\ records[p].highest_generation \in Nat
         /\ records[p].max_source \in Nat /\ publishers[p].max_source \in Nat
<1>1. Good(p, publishers[p], records[p], open) /\ p \in DOMAIN records
  BY DEF IInv
<1>2. publishers[p] \in PublisherRegistration /\ records[p] \in PublisherRecord
  BY <1>1 DEF Good
<1>3. /\ records[p].highest_boot \in Boot /\ records[p].highest_generation \in Generation
      /\ records[p].max_source \in Source /\ publishers[p].max_source \in Source
  BY <1>2 DEF PublisherRegistration, PublisherRecord
<1>4. Boot \subseteq Nat /\ Generation \subseteq Nat
  BY BoundsAssumption DEF Boot, Generation
<1> QED
  BY <1>1, <1>2, <1>3, <1>4, SourceAssumption, Zenon DEF Good

\* A step that leaves the records alone keeps the fences when it keeps ceilings
\* and does not revive.
LEMMA VolatileKeepsFences ==
  ASSUME IInv, records' = records, DOMAIN publishers' = DOMAIN publishers,
         \A p \in DOMAIN publishers :
           /\ publishers'[p].max_source >= publishers[p].max_source
           /\ publishers[p].state = "DEAD" => publishers'[p].state # "LIVE"
  PROVE  KeepsFences
BY FenceFacts DEF KeepsFences, IInv

\* The same when one registration changes.
LEMMA OneKeepsFences ==
  ASSUME IInv, NEW p \in DOMAIN publishers, NEW r,
         publishers' = [publishers EXCEPT ![p] = r], records' = records,
         r.max_source = publishers[p].max_source,
         publishers[p].state = "DEAD" => r.state # "LIVE"
  PROVE  KeepsFences
<1>1. \A q \in DOMAIN publishers : publishers[q].max_source \in Nat
  BY FenceFacts
<1>2. /\ DOMAIN publishers' = DOMAIN publishers
      /\ \A q \in DOMAIN publishers : publishers'[q] = IF q = p THEN r ELSE publishers[q]
  BY DEF IInv
<1>3. \A q \in DOMAIN publishers :
        /\ publishers'[q].max_source >= publishers[q].max_source
        /\ publishers[q].state = "DEAD" => publishers'[q].state # "LIVE"
  BY <1>1, <1>2
<1> QED
  BY <1>2, <1>3, VolatileKeepsFences

LEMMA BindSessionKeepsFences ==
  ASSUME IInv, NEW p \in Publisher, NEW b \in Boot, NEW source \in Source, NEW s \in Session,
         BindSession(p, b, source, s)
  PROVE  KeepsFences
<1> DEFINE r   == BoundRegistration(p, b, source, s)
           rec == BoundRecord(p, b, source)
<1>1. /\ records' = Put(records, p, rec)
      /\ publishers' \in {publishers, Put(publishers, p, r)}
  BY DEF BindSession
<1>2. p \in DOMAIN records =>
        /\ rec.highest_boot = b /\ b >= records[p].highest_boot
        /\ b = records[p].highest_boot =>
             rec.highest_generation = records[p].highest_generation
        /\ rec.max_source = Higher(source, records[p].max_source)
  <2>1. p \in DOMAIN records => b >= records[p].highest_boot /\ records[p].highest_boot \in Nat
    BY FenceFacts DEF BindSession, IInv
  <2>2. p \in DOMAIN records =>
          rec = [highest_boot |-> b,
                 highest_generation |-> IF b > records[p].highest_boot
                                        THEN 0 ELSE records[p].highest_generation,
                 max_source |-> Higher(source, records[p].max_source)]
    BY DEF BoundRecord
  <2>3. p \in DOMAIN records /\ b = records[p].highest_boot => ~ (b > records[p].highest_boot)
    BY <2>1
  <2> QED
    BY <2>1, <2>2, <2>3
<1>3. p \in DOMAIN publishers =>
        r.max_source = publishers[p].max_source /\ r.session = s
  BY FenceFacts DEF BoundRegistration, PublisherRegistration
<1> HIDE DEF r, rec
<1>4. ASSUME NEW q \in DOMAIN records
      PROVE  /\ q \in DOMAIN records'
             /\ records'[q].highest_boot >= records[q].highest_boot
             /\ records'[q].highest_boot = records[q].highest_boot
                  => records'[q].highest_generation >= records[q].highest_generation
             /\ records'[q].max_source >= records[q].max_source
  <2>1. /\ records[q].highest_boot \in Nat /\ records[q].highest_generation \in Nat
        /\ records[q].max_source \in Nat /\ source \in Nat /\ b \in Nat
    BY FenceFacts, SourceAssumption DEF IInv, Boot
  <2>2. q \in DOMAIN records' /\ records'[q] = IF q = p THEN rec ELSE records[q]
    BY <1>1 DEF Put
  <2> QED
    BY <1>2, <2>1, <2>2 DEF Higher
<1>5. ASSUME NEW q \in DOMAIN publishers
      PROVE  /\ publishers'[q].max_source >= publishers[q].max_source
             /\ (publishers[q].state = "DEAD" /\ publishers'[q].state = "LIVE")
                  => publishers'[q].session # NoSession
  <2>1. publishers[q].max_source \in Nat
    BY FenceFacts
  <2>2. publishers'[q] = publishers[q] \/ (q = p /\ publishers'[q] = r)
    BY <1>1 DEF Put
  <2> QED
    BY <1>3, <2>1, <2>2, NoSessionAssumption
<1> QED
  BY <1>4, <1>5 DEF KeepsFences

\* observe_evidence_generation() raises the mark of the boot it was called for.
LEMMA ObserveKeepsFences ==
  ASSUME IInv, NEW p \in Publisher, NEW b \in Boot, NEW g \in Generation,
         ObserveEvidenceGeneration(p, b, g)
  PROVE  KeepsFences
<1>1. p \in DOMAIN publishers /\ p \in DOMAIN records /\ g > publishers[p].highest_generation
  BY DEF ObserveEvidenceGeneration, IInv
<1>2. /\ publishers' = [publishers EXCEPT ![p].highest_generation = g]
      /\ records' = [records EXCEPT ![p].highest_generation = g]
  BY <1>1 DEF ObserveEvidenceGeneration
<1>3. ASSUME NEW q \in DOMAIN records
      PROVE  /\ q \in DOMAIN records'
             /\ records'[q].highest_boot >= records[q].highest_boot
             /\ records'[q].highest_generation >= records[q].highest_generation
             /\ records'[q].max_source >= records[q].max_source
  <2>1. /\ records[q] \in PublisherRecord /\ records[q].highest_boot \in Nat
        /\ records[q].highest_generation \in Nat /\ records[q].max_source \in Nat
        /\ records[q].highest_generation = publishers[q].highest_generation
    BY FenceFacts DEF IInv
  <2>2. /\ q \in DOMAIN records'
        /\ records'[q] = IF q = p THEN [records[q] EXCEPT !.highest_generation = g]
                          ELSE records[q]
    BY <1>2 DEF IInv
  <2>3. g \in Nat
    BY BoundsAssumption DEF Generation
  <2>4. /\ records'[q].highest_boot = records[q].highest_boot
        /\ records'[q].max_source = records[q].max_source
        /\ records'[q].highest_generation = IF q = p THEN g ELSE records[q].highest_generation
    BY <2>1, <2>2 DEF PublisherRecord
  <2> QED
    BY <1>1, <2>1, <2>2, <2>3, <2>4
<1>4. ASSUME NEW q \in DOMAIN publishers
      PROVE  /\ publishers'[q].max_source >= publishers[q].max_source
             /\ publishers'[q].state = publishers[q].state
  <2>1. publishers[q] \in PublisherRegistration /\ publishers[q].max_source \in Nat
    BY FenceFacts
  <2>2. publishers'[q] \in {publishers[q], [publishers[q] EXCEPT !.highest_generation = g]}
    BY <1>2 DEF IInv
  <2> QED
    BY <2>1, <2>2 DEF PublisherRegistration
<1> QED
  BY <1>3, <1>4 DEF KeepsFences

\* The replay fences, the ceilings and the death of an incarnation survive every
\* step: the action property follows from the invariant, operation by operation.
LEMMA NextKeepsFences == IInv /\ [Next]_vars => [KeepsFences]_vars
<1> SUFFICES ASSUME IInv, Next PROVE KeepsFences
  OBVIOUS
<1>1. ASSUME NEW p \in Publisher, NEW b \in Boot, NEW s \in Session, NEW source \in Source,
             BindSession(p, b, source, s)
      PROVE  KeepsFences
  BY <1>1, BindSessionKeepsFences
<1>2. ASSUME NEW p \in Publisher, NEW b \in Boot, NEW s \in Session,
             EndSpecificSession(p, b, s)
      PROVE  KeepsFences
  <2>1. p \in DOMAIN publishers /\ publishers[p] \in PublisherRegistration
    BY <1>2, FenceFacts DEF EndSpecificSession, IInv
  <2> DEFINE r == Ended(publishers[p], Without(publishers[p].live_sessions, s), s)
  <2>2. publishers' = [publishers EXCEPT ![p] = r] /\ records' = records
    BY <1>2, <2>1, Zenon DEF EndSpecificSession, IInv
  <2>3. r.max_source = publishers[p].max_source /\ (publishers[p].state = "DEAD" => r.state # "LIVE")
    BY <2>1 DEF Ended, PublisherRegistration
  <2> QED
    BY <2>1, <2>2, <2>3, OneKeepsFences, Zenon
<1>3. ASSUME NEW p \in Publisher, NEW b \in Boot, EndSession(p, b) \/ Touch(p, b)
      PROVE  KeepsFences
  <2>1. p \in DOMAIN publishers /\ publishers[p] \in PublisherRegistration
    BY <1>3, FenceFacts DEF EndSession, Touch
  <2>2. PICK r \in {Ended(publishers[p], <<>>, publishers[p].session), Touched(publishers[p])} :
          publishers' = [publishers EXCEPT ![p] = r] /\ records' = records
    BY <1>3 DEF EndSession, Touch
  <2>3. r.max_source = publishers[p].max_source /\ (publishers[p].state = "DEAD" => r.state # "LIVE")
    BY <2>1, Zenon DEF Ended, Touched, PublisherRegistration
  <2> QED
    BY <2>1, <2>2, <2>3, OneKeepsFences, Zenon
<1>4. ASSUME NEW p \in Publisher, NEW b \in Boot, NEW g \in Generation,
             ObserveEvidenceGeneration(p, b, g)
      PROVE  KeepsFences
  BY <1>4, ObserveKeepsFences
<1>5. ASSUME NEW p \in Publisher, RequireRevalidation(p) PROVE KeepsFences
  <2> DEFINE r == [publishers[p] EXCEPT !.state = "IDLE", !.session = NoSession]
  <2>1. p \in DOMAIN publishers /\ publishers[p] \in PublisherRegistration
    BY <1>5, FenceFacts DEF RequireRevalidation
  <2>2. publishers' = [publishers EXCEPT ![p] = r] /\ records' = records
    BY <1>5, Zenon DEF RequireRevalidation, IInv
  <2>3. r.max_source = publishers[p].max_source /\ r.state = "IDLE"
    BY <2>1 DEF PublisherRegistration
  <2> HIDE DEF r
  <2> QED
    BY <2>1, <2>2, <2>3, OneKeepsFences, Zenon
<1>6. CASE ExpireLiveness \/ ClearSessions
  <2>1. records' = records /\ DOMAIN publishers' = DOMAIN publishers
    BY <1>6, Zenon DEF ExpireLiveness, ClearSessions
  <2>2. ASSUME NEW p \in DOMAIN publishers
        PROVE  /\ publishers'[p].max_source >= publishers[p].max_source
               /\ publishers[p].state = "DEAD" => publishers'[p].state # "LIVE"
    <3>1. publishers[p] \in PublisherRegistration /\ publishers[p].max_source \in Nat
      BY FenceFacts
    <3>2. PICK r \in {publishers[p], [publishers[p] EXCEPT !.state = "IDLE"],
                      [publishers[p] EXCEPT !.state = "IDLE", !.session = NoSession,
                                            !.last_seen = TickNone]} :
            publishers'[p] = r
      BY <1>6, Zenon DEF ExpireLiveness, ClearSessions
    <3>3. r.max_source = publishers[p].max_source /\ r.state \in {publishers[p].state, "IDLE"}
      BY <3>1, Zenon DEF PublisherRegistration
    <3> QED
      BY <3>1, <3>2, <3>3
  <2> QED
    BY <2>1, <2>2, VolatileKeepsFences
<1>7. CASE RestoreRecords
  <2>1. records' = records /\ DOMAIN publishers' = DOMAIN publishers
    BY <1>7 DEF RestoreRecords, IInv
  <2>2. \A p \in DOMAIN publishers :
          publishers'[p].max_source = records[p].max_source /\ publishers'[p].state = "IDLE"
    BY <1>7 DEF RestoreRecords, Restored, IInv
  <2> QED
    BY <2>1, <2>2, FenceFacts, VolatileKeepsFences
<1>8. CASE AdvanceClock
  <2>1. records' = records /\ publishers' = publishers
    BY <1>8 DEF AdvanceClock
  <2>2. \A p \in DOMAIN publishers : publishers[p].max_source >= publishers[p].max_source
    BY FenceFacts
  <2> QED
    BY <2>1, <2>2, VolatileKeepsFences
<1> QED
  BY <1>1, <1>2, <1>3, <1>4, <1>5, <1>6, <1>7, <1>8 DEF Next

\* FencesNeverFall for every registry.
THEOREM FencesHold == Spec => FencesNeverFall
BY InitIInv, NextIInv, NextKeepsFences, PTL DEF Spec, FencesNeverFall

=============================================================================
