--------------------------- MODULE GattEndpoints ---------------------------
(* Which characteristics of a BLE printer are written to and listened to   *)
(* (transport/bluetooth/adapters/bleak_adapter_endpoint_resolver.py and    *)
(* configure_endpoints in bleak_adapter_transport.py).  The operating      *)
(* system lists services and characteristics in an order of its own, which *)
(* may be another one at the next connection.                              *)
EXTENDS Integers, Sequences, FiniteSets, SequencesExt

CONSTANTS
  GeServices,        \* uuids of the services a printer may have, each an integer in sorted order
  GeCharacteristics, \* what it may have in a service: [uuid, can]
  GeKnown,           \* the preferred uuids: [service, write, notify]
  GeProfiles         \* [service, write, notify, anyNotify, bulk, control], 0 for none

VARIABLES
  geListed,      \* the services as they are listed: [uuid, chars]
  geProfile,     \* the transport profile, or NoProfile
  geBound        \* the endpoints of each connection so far

geVars == <<geListed, geProfile, geBound>>

NoProfile == [service |-> 0, write |-> 0, notify |-> 0, anyNotify |-> FALSE, bulk |-> 0, control |-> 0]
GeWritable(c) == c.can \cap {"write", "wnr"} # {}
GeNotifies(c) == "notify" \in c.can

-----------------------------------------------------------------------------
(* _collect_candidates, and _score_preferred_candidate with it.            *)
GeCandidates(listed, p) ==
  LET of(s) == SelectSeq(s.chars, LAMBDA c : GeWritable(c) /\ p.write \in {0, c.uuid})
      Candidate(s, c) ==
        LET known == c.uuid \in GeKnown.write \cup ({p.write} \ {0})
            home == s.uuid \in GeKnown.service \cup ({p.service} \ {0})
        IN [service |-> s, char |-> c, preferred |-> known \/ home,
            score |-> (IF known THEN 100 ELSE 0) + (IF home THEN 50 ELSE 0)
                      + (IF c.uuid \in GeKnown.notify THEN 5 ELSE 0)
                      + (IF "wnr" \in c.can THEN 10 ELSE 5)]
      mine == SelectSeq(listed, LAMBDA s : p.service \in {0, s.uuid})
  IN FoldLeft(LAMBDA all, s : all \o [i \in DOMAIN of(s) |-> Candidate(s, of(s)[i])], <<>>, mine)

(* sorted(...)[0] is stable: the first of those that come before all others*)
GeByUuid(a, b) ==
  \/ a.service.uuid < b.service.uuid
  \/ a.service.uuid = b.service.uuid /\ a.char.uuid < b.char.uuid
GeByScore(a, b) == a.score > b.score \/ (a.score = b.score /\ GeByUuid(a, b))
GeFirst(seq, scored) ==
  LET Before(a, b) == IF scored THEN GeByScore(a, b) ELSE GeByUuid(a, b)
      best == {i \in DOMAIN seq : \A k \in DOMAIN seq : ~Before(seq[k], seq[i])}
  IN seq[CHOOSE i \in best : \A k \in best : i <= k]

(* _select_candidate: known families first, then any characteristic, those *)
(* that take writes without a response before those that only answer.      *)
GeSelect(candidates) ==
  LET known == SelectSeq(candidates, LAMBDA c : c.preferred)
      wnr == SelectSeq(candidates, LAMBDA c : "wnr" \in c.char.can)
      Chosen(c, strategy) ==
        [service |-> c.service, char |-> c.char, strategy |-> strategy, asked |-> "wnr" \notin c.char.can]
  IN IF known # <<>> THEN Chosen(GeFirst(known, TRUE), "preferred_uuid")
     ELSE Chosen(GeFirst(IF wnr # <<>> THEN wnr ELSE candidates, FALSE), "generic_fallback")

(* resolve_response_mode.                                                  *)
GeResponse(char, strategy, asked) ==
  IF strategy = "preferred_uuid" THEN "wnr" \notin char.can
  ELSE IF {"wnr", "write"} \subseteq char.can THEN asked ELSE "write" \in char.can

-----------------------------------------------------------------------------
(* _required_characteristic: exactly one, or the layout is incomplete.     *)
GeRequired(services, uuid, cans) ==
  LET found == {x \in services \X (1..2) :
                  x[2] \in DOMAIN x[1].chars
                  /\ x[1].chars[x[2]].uuid = uuid /\ x[1].chars[x[2]].can \cap cans # {}}
  IN IF Cardinality(found) = 1 THEN (CHOOSE x \in found : TRUE)[1].uuid ELSE 0

(* find_notify_characteristic, of one service: a known one if there is one.*)
GeAnyNotify(s) ==
  LET all == {s.chars[i].uuid : i \in {k \in DOMAIN s.chars : GeNotifies(s.chars[k])}}
      known == all \cap GeKnown.notify
      from == IF known # {} THEN known ELSE all
  IN IF from = {} THEN 0 ELSE CHOOSE u \in from : \A v \in from : u <= v

(* _resolve_layout: [notify, bulk, control] as <<service, uuid>>, or Broken*)
Broken == [notify |-> <<0, 0>>, bulk |-> <<0, 0>>, control |-> <<0, 0>>]
Unusable == [write |-> <<0, 0>>, response |-> FALSE, layout |-> Broken]
GeLayout(s, services, p) ==
  LET here == {s}
      Local(uuid) == \E i \in DOMAIN s.chars : s.chars[i].uuid = uuid
      where == [notify |-> IF p.notify # 0 THEN GeRequired(here, p.notify, {"notify"}) ELSE s.uuid,
                bulk |-> IF p.bulk # 0 THEN GeRequired(here, p.bulk, {"write", "wnr"}) ELSE s.uuid,
                control |-> IF p.control # 0
                            THEN GeRequired(IF Local(p.control) THEN here ELSE services,
                                            p.control, {"notify"})
                            ELSE s.uuid]
  IN IF 0 \in {where.notify, where.bulk, where.control} THEN Broken
     ELSE [notify |-> <<where.notify,
                        IF p.notify # 0 THEN p.notify ELSE IF p.anyNotify THEN GeAnyNotify(s) ELSE 0>>,
           bulk |-> <<where.bulk, p.bulk>>, control |-> <<where.control, p.control>>]

(* resolve: of the candidates whose service has the whole layout.          *)
GeResolve(listed, p) ==
  LET services == Range(listed)
      whole == SelectSeq(GeCandidates(listed, p), LAMBDA c : GeLayout(c.service, services, p) # Broken)
      chosen == GeSelect(whole)
  IN IF whole = <<>> THEN Unusable
     ELSE [write |-> <<chosen.service.uuid, chosen.char.uuid>>,
           response |-> GeResponse(chosen.char, chosen.strategy, chosen.asked),
           layout |-> GeLayout(chosen.service, services, p)]

-----------------------------------------------------------------------------
GeTables ==
  {<<[uuid |-> a, chars |-> x], [uuid |-> b, chars |-> y]>> :
     a \in GeServices, b \in GeServices,
     x \in {<<c, d>> : c \in GeCharacteristics, d \in GeCharacteristics},
     y \in {<<c>> : c \in GeCharacteristics} \cup {<<>>}}
GeInit ==
  /\ geListed \in {t \in GeTables : t[1].uuid # t[2].uuid}
  /\ geProfile \in GeProfiles \cup {NoProfile} /\ geBound = {}

(* configure_endpoints, with the services listed in any order.             *)
GeConnect ==
  /\ Cardinality(geBound) < 2
  /\ \E flipped \in BOOLEAN, turned \in BOOLEAN :
       LET inner == [k \in {1, 2} |-> IF flipped THEN [geListed[k] EXCEPT !.chars = Reverse(@)]
                                      ELSE geListed[k]]
       IN geListed' = IF turned THEN Reverse(inner) ELSE inner
  /\ geBound' = geBound \cup {GeResolve(geListed', geProfile)}
  /\ UNCHANGED geProfile
GeNext == GeConnect

GeSpec == GeInit /\ [][GeNext]_geVars

-----------------------------------------------------------------------------
(* A printer is written to and listened to at the same characteristics on  *)
(* every connection, whatever the order they are listed in.                *)
GeSameEndpoints == Cardinality(geBound) <= 1

(* What is written to can be written to in that way, and the layout is     *)
(* that of its service; only control may come from another one.            *)
GeCoherent ==
  \A b \in geBound \ {Unusable} :
    /\ \E s \in Range(geListed) : \E c \in Range(s.chars) :
         b.write = <<s.uuid, c.uuid>> /\ (IF b.response THEN "write" ELSE "wnr") \in c.can
    /\ b.layout.notify[1] = b.write[1] /\ b.layout.bulk[1] = b.write[1]
=============================================================================
