------------------------- MODULE PublisherRegistry -------------------------
(***************************************************************************)
(* The publisher registry (src/store/publisher_registry.cpp): for every    *)
(* publisher a durable record (the highest boot seen, the highest evidence *)
(* generation that boot has used, the authority ceiling) and a volatile    *)
(* registration (the sessions bound to the incarnation, its liveness).     *)
(*                                                                         *)
(* Evidence sources are their ranks.  The epoch and coordinator boot a     *)
(* registration was made in, descriptions, wall-clock times and statistics *)
(* take no part in any decision of the registry and are left out.          *)
(*                                                                         *)
(* `open' is a history variable: the sessions that were bound and have     *)
(* neither been closed nor dropped, as the transport knows them.           *)
(***************************************************************************)
EXTENDS Integers, FiniteSets, Sequences, PartialMaps

CONSTANTS Publisher, Session,
          NoSession,        \* the empty SessionId
          Source,           \* source ranks a coordinator grants as a ceiling
          MaxBoot, MaxGeneration, MaxTick,   \* the largest values presented
          MaxPublishers, IdleTicks           \* configured limits

ASSUME BoundsAssumption == MaxBoot \in Nat /\ MaxGeneration \in Nat /\ MaxTick \in Nat \ {0}
ASSUME RegistryLimitAssumption == MaxPublishers \in Nat /\ IdleTicks \in Nat \ {0}
ASSUME SourceAssumption == Source \subseteq Nat
ASSUME NoSessionAssumption == NoSession \notin Session

VARIABLES publishers,   \* publishers_: PublisherId -> PublisherRegistration
          records,      \* records_: PublisherId -> PublisherRecord
          now,          \* the tick the caller's clock shows
          open          \* history: <<publisher, boot, session>> still open

vars == <<publishers, records, now, open>>

Boot == 1 .. MaxBoot
Generation == 0 .. MaxGeneration      \* zero: none used yet
Tick == 0 .. MaxTick
TickNone == 0                         \* kTickNone

PublisherRegistration ==
  [boot : Boot, session : Session \cup {NoSession}, live_sessions : Seq(Session),
   state : {"LIVE", "IDLE", "DEAD"}, max_source : Source,
   last_seen : Tick, highest_generation : Generation]

PublisherRecord ==
  [highest_boot : Boot, highest_generation : Generation, max_source : Source]

Init == /\ publishers = EmptyMap
        /\ records = EmptyMap
        /\ now = 1
        /\ open = {}

-----------------------------------------------------------------------------
(* Helpers. *)

\* The elements of a sequence.
Elements(q) == {q[i] : i \in DOMAIN q}

\* q without the (single) occurrence of s, as erase(remove(...)) leaves it.
Without(q, s) ==
  IF s \in Elements(q)
  THEN LET k == CHOOSE i \in DOMAIN q : q[i] = s
       IN  [i \in 1 .. Len(q) - 1 |-> IF i < k THEN q[i] ELSE q[i + 1]]
  ELSE q

\* is_live(): LIVE at exactly this boot, with a session.
IsLive(p, boot) ==
  /\ p \in DOMAIN publishers
  /\ publishers[p].state = "LIVE"
  /\ publishers[p].boot = boot
  /\ publishers[p].live_sessions # <<>>

\* The larger of two source ranks.
Higher(a, b) == IF a > b THEN a ELSE b

\* The durable record bind_session() leaves: a new incarnation restarts the
\* high-water mark, the ceiling is only ever raised.
BoundRecord(p, boot, source) ==
  IF p \notin DOMAIN records
  THEN [highest_boot |-> boot, highest_generation |-> 0, max_source |-> source]
  ELSE [highest_boot |-> boot,
        highest_generation |-> IF boot > records[p].highest_boot
                               THEN 0 ELSE records[p].highest_generation,
        max_source |-> Higher(source, records[p].max_source)]

\* The registration it leaves: sessions of the same incarnation accumulate.  The
\* ceiling of an existing registration is not raised.
BoundRegistration(p, boot, source, s) ==
  IF p \notin DOMAIN publishers
  THEN [boot |-> boot, session |-> s, live_sessions |-> <<s>>, state |-> "LIVE",
        max_source |-> source, last_seen |-> now, highest_generation |-> 0]
  ELSE LET r     == publishers[p]
           fresh == boot > r.boot
           live  == IF fresh THEN <<>> ELSE r.live_sessions
       IN  [r EXCEPT !.boot = boot,
                     !.highest_generation = IF fresh THEN 0 ELSE @,
                     !.live_sessions = IF s \in Elements(live) THEN live ELSE Append(live, s),
                     !.session = s, !.state = "LIVE", !.last_seen = now]

\* end_specific_session() with the sessions that remain: the incarnation dies
\* with the last one.
Ended(r, remaining, ended) ==
  [r EXCEPT !.live_sessions = remaining,
            !.session = IF @ # ended THEN @
                        ELSE IF remaining = <<>> THEN NoSession ELSE remaining[Len(remaining)],
            !.state = IF remaining = <<>> THEN "DEAD" ELSE @,
            !.last_seen = IF remaining = <<>> THEN now ELSE @]

\* touch(): contact makes anything but a DEAD registration LIVE.
Touched(r) ==
  [r EXCEPT !.last_seen = now, !.state = IF @ = "DEAD" THEN "DEAD" ELSE "LIVE"]

\* A registration rebuilt from its durable record: IDLE, with no session.
Restored(rec) ==
  [boot |-> rec.highest_boot, session |-> NoSession, live_sessions |-> <<>>,
   state |-> "IDLE", max_source |-> rec.max_source, last_seen |-> TickNone,
   highest_generation |-> rec.highest_generation]

-----------------------------------------------------------------------------
(* Operations. *)

\* bind_session(): the record is written first; the registration's own checks
\* come after it and would leave the two apart if they failed.
BindSession(p, boot, source, s) ==
  /\ IF p \in DOMAIN records
     THEN boot >= records[p].highest_boot
     ELSE Cardinality(DOMAIN records) < MaxPublishers
  /\ records' = Put(records, p, BoundRecord(p, boot, source))
  /\ IF IF p \in DOMAIN publishers
        THEN boot >= publishers[p].boot
        ELSE Cardinality(DOMAIN publishers) < MaxPublishers
     THEN /\ publishers' = Put(publishers, p, BoundRegistration(p, boot, source, s))
          /\ open' = open \cup {<<p, boot, s>>}
     ELSE UNCHANGED <<publishers, open>>
  /\ UNCHANGED now

\* Faulty variant: closing any session ends the incarnation.
EndSpecificSessionEndsAll(p, boot, s) ==
  /\ p \in DOMAIN publishers
  /\ publishers[p].boot = boot
  /\ open' = open \ {<<p, boot, s>>}
  /\ publishers' = [publishers EXCEPT ![p] = Ended(@, <<>>, @.session)]
  /\ UNCHANGED <<records, now>>

\* Faulty variant: the session to publish through is not moved on.
EndSpecificSessionKeepsSession(p, boot, s) ==
  /\ p \in DOMAIN publishers
  /\ publishers[p].boot = boot
  /\ open' = open \ {<<p, boot, s>>}
  /\ publishers' = [publishers EXCEPT ![p] = Ended(@, Without(@.live_sessions, s), NoSession)]
  /\ UNCHANGED <<records, now>>

\* end_specific_session() with a session.  Any name is accepted at the current boot,
\* one that is not listed included: with an empty list that makes an IDLE
\* registration DEAD.  The close of a superseded incarnation is refused.
EndSpecificSession(p, boot, s) ==
  /\ p \in DOMAIN publishers
  /\ publishers[p].boot = boot
  /\ open' = open \ {<<p, boot, s>>}
  /\ publishers' = [publishers EXCEPT ![p] = Ended(@, Without(@.live_sessions, s), s)]
  /\ UNCHANGED <<records, now>>

\* end_session(): every session of the incarnation.
EndSession(p, boot) ==
  /\ p \in DOMAIN publishers
  /\ publishers[p].boot = boot
  /\ open' = {o \in open : o[1] # p \/ o[2] # boot}
  /\ publishers' = [publishers EXCEPT ![p] = Ended(@, <<>>, @.session)]
  /\ UNCHANGED <<records, now>>

\* expire_liveness(): one sweep over all registrations.
ExpireLiveness ==
  /\ publishers' = [p \in DOMAIN publishers |->
                      IF /\ publishers[p].state = "LIVE"
                         /\ now - publishers[p].last_seen > IdleTicks
                      THEN [publishers[p] EXCEPT !.state = "IDLE"]
                      ELSE publishers[p]]
  /\ UNCHANGED <<records, now, open>>

\* touch(), the effect of a heartbeat or of an accepted publication.
Touch(p, boot) ==
  /\ p \in DOMAIN publishers
  /\ publishers[p].boot = boot
  /\ publishers' = [publishers EXCEPT ![p] = Touched(@)]
  /\ UNCHANGED <<records, now, open>>

\* require_revalidation(): the bound sessions stay listed.
RequireRevalidation(p) ==
  /\ p \in DOMAIN publishers
  /\ publishers' = [publishers EXCEPT ![p].state = "IDLE", ![p].session = NoSession]
  /\ UNCHANGED <<records, now, open>>

\* Faulty variant: the durable mark is not written.
ObserveEvidenceGenerationVolatile(p, boot, generation) ==
  /\ p \in DOMAIN publishers
  /\ publishers[p].boot = boot
  /\ generation > publishers[p].highest_generation
  /\ publishers' = [publishers EXCEPT ![p].highest_generation = generation]
  /\ UNCHANGED <<records, now, open>>

\* Faulty variant: the generation expected next is recorded.
ObserveEvidenceGenerationNext(p, boot, generation) ==
  /\ p \in DOMAIN publishers
  /\ publishers[p].boot = boot
  /\ generation > publishers[p].highest_generation
  /\ publishers' = [publishers EXCEPT ![p].highest_generation = generation + 1]
  /\ records' = [records EXCEPT ![p].highest_generation = generation + 1]
  /\ UNCHANGED <<now, open>>

\* Faulty variant: a lower generation is accepted.
ObserveEvidenceGenerationAny(p, boot, generation) ==
  /\ p \in DOMAIN publishers
  /\ publishers[p].boot = boot
  /\ generation # publishers[p].highest_generation
  /\ publishers' = [publishers EXCEPT ![p].highest_generation = generation]
  /\ records' = [records EXCEPT ![p].highest_generation = generation]
  /\ UNCHANGED <<now, open>>

\* observe_evidence_generation(): strictly larger than every one used.
ObserveEvidenceGeneration(p, boot, generation) ==
  /\ p \in DOMAIN publishers
  /\ publishers[p].boot = boot
  /\ generation > publishers[p].highest_generation
  /\ publishers' = [publishers EXCEPT ![p].highest_generation = generation]
  /\ records' = IF p \in DOMAIN records
                THEN [records EXCEPT ![p].highest_generation = generation]
                ELSE records
  /\ UNCHANGED <<now, open>>

\* clear_sessions(), when the coordinator's epoch advances: the sessions are
\* dropped, but live_sessions is not emptied.
ClearSessions ==
  /\ publishers' = [p \in DOMAIN publishers |->
                      [publishers[p] EXCEPT !.state = "IDLE", !.session = NoSession,
                                            !.last_seen = TickNone]]
  /\ open' = {}
  /\ UNCHANGED <<records, now>>

\* A restart: snapshot_records() of the old process, restore_records() in the new.
RestoreRecords ==
  /\ publishers' = [p \in DOMAIN records |-> Restored(records[p])]
  /\ open' = {}
  /\ UNCHANGED <<records, now>>

\* The caller's clock moves on.
AdvanceClock ==
  /\ now < MaxTick
  /\ now' = now + 1
  /\ UNCHANGED <<publishers, records, open>>

Next ==
  \/ \E p \in Publisher, b \in Boot :
       \/ \E s \in Session :
            \/ \E source \in Source : BindSession(p, b, source, s)
            \/ EndSpecificSession(p, b, s)
       \/ EndSession(p, b)
       \/ Touch(p, b)
       \/ \E g \in Generation : ObserveEvidenceGeneration(p, b, g)
  \/ \E p \in Publisher : RequireRevalidation(p)
  \/ ExpireLiveness
  \/ ClearSessions
  \/ RestoreRecords
  \/ AdvanceClock

Spec == Init /\ [][Next]_vars

-----------------------------------------------------------------------------
(* Properties. *)

\* Registrations and records keep their shape; open sessions name known values.
TypeOK == /\ IsMap(publishers, Publisher, PublisherRegistration)
          /\ IsMap(records, Publisher, PublisherRecord)
          /\ now \in Tick
          /\ open \subseteq Publisher \X Boot \X Session

\* The two tables move together.  records_, which snapshot_records() hands to the
\* next save, always carries the boot and the replay mark that publishers_ is checked
\* against, and bind_session(), which writes one before it has checked the other,
\* never leaves an entry in one table alone.  Both tables are in memory: whether a
\* save has taken place is not part of this.
RecordCarriesFence ==
  /\ DOMAIN records = DOMAIN publishers
  /\ \A p \in DOMAIN publishers :
       /\ records[p].highest_boot = publishers[p].boot
       /\ records[p].highest_generation = publishers[p].highest_generation
       /\ records[p].max_source >= publishers[p].max_source

\* Sessions are listed once, and the session evidence is accepted through is a
\* listed one: end_specific_session() moves it on when it closes.
SessionListed ==
  \A p \in DOMAIN publishers :
    /\ \A i, j \in DOMAIN publishers[p].live_sessions :
         publishers[p].live_sessions[i] = publishers[p].live_sessions[j] => i = j
    /\ publishers[p].session # NoSession
         => publishers[p].session \in Elements(publishers[p].live_sessions)

\* A second connection cannot end the first one's authority: an incarnation with
\* a connection still open is never DEAD, whichever of its other connections,
\* or of an older incarnation's, close and in whatever order.
OpenNeverDead ==
  \A o \in open :
    o[1] \in DOMAIN publishers /\
    (publishers[o[1]].boot = o[2] =>
       /\ publishers[o[1]].state # "DEAD"
       /\ o[3] \in Elements(publishers[o[1]].live_sessions))

\* What every step keeps: boots never fall, the replay mark of a boot never
\* falls, ceilings never fall, and DEAD is not left for LIVE without a session.
KeepsFences ==
  /\ \A p \in DOMAIN records :
       /\ p \in DOMAIN records'
       /\ records'[p].highest_boot >= records[p].highest_boot
       /\ records'[p].highest_boot = records[p].highest_boot
            => records'[p].highest_generation >= records[p].highest_generation
       /\ records'[p].max_source >= records[p].max_source
  /\ \A p \in DOMAIN publishers :
       /\ publishers'[p].max_source >= publishers[p].max_source
       /\ (publishers[p].state = "DEAD" /\ publishers'[p].state = "LIVE")
            => publishers'[p].session # NoSession

\* No sequence of reconnects, restarts and publications lowers a fence, lowers
\* the authority ceiling, or revives a DEAD incarnation by contact alone.
FencesNeverFall == [][KeepsFences]_vars

\* domain/publisher.hpp says of LIVE: "A session is bound in the current epoch".
\* It fails: touch() makes a registration restored from disk LIVE, and it has none.
\* A statement of the repository that the code does not keep (README, section 4).
LiveHasSession ==
  \A p \in DOMAIN publishers :
    publishers[p].state = "LIVE" => publishers[p].live_sessions # <<>>

\* clear_sessions() "drops all volatile sessions and returns the publishers to a
\* not-live state" (publisher_registry.hpp).  It fails: live_sessions survives, so
\* a later touch() makes is_live() true with no session open.
\* A statement of the repository that the code does not keep (README, section 4).
ClearedIsNotLive ==
  \A p \in Publisher, b \in Boot :
    IsLive(p, b) => \E s \in Session : <<p, b, s>> \in open

=============================================================================
