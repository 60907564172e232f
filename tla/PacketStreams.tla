---------------------------- MODULE PacketStreams ----------------------------
(* What a controller hears of a printer's bytes: the decoders of            *)
(* protocol/packet.py, protocol/families/yk_common.py and                   *)
(* phomemo_replies.py and of vendors/niimbot/client.py, fed with a stream   *)
(* that is cut anywhere, holds noise, and holds frames that were damaged.   *)
(* A byte is a small number, a length, a command and a checksum are one     *)
(* byte each.                                                               *)
EXTENDS Integers, Sequences, SequencesExt

CONSTANTS
  PsDialects,    \* "prefixed", "yk", "niimbot", "phomemo", "printmaster"
  PsMost         \* frames and pieces of noise that are sent (bound)

VARIABLES
  psDialect,
  psItems,       \* what was sent: [bytes, at (the bytes before), intact]
  psCount,       \* _received_byte_count
  psRest,        \* _buffer, _pending
  psHeard        \* frames decoded: [frame, at (start_offset), end]

psVars == <<psDialect, psItems, psCount, psRest, psHeard>>

(* A marked frame: prefix, command, length, payload, checksum, end.         *)
PsMarked == [prefixed |-> [prefix |-> <<1, 2>>, end |-> <<9>>],
             yk |-> [prefix |-> <<1>>, end |-> <<9>>],
             niimbot |-> [prefix |-> <<1, 1>>, end |-> <<9, 9>>]]
PsCheck(payload) == 3 + (FoldLeft(LAMBDA sum, b : sum + b, 0, payload) % 3)
PsFrame(dialect, payload) ==
  PsMarked[dialect].prefix \o <<3, Len(payload)>> \o payload \o <<PsCheck(payload)>> \o PsMarked[dialect].end

(* A reply has the size of its command, which a prefix may precede.         *)
PsReplies == [phomemo |-> [prefixes |-> {1}, bare |-> FALSE, size |-> <<0, 0, 2, 4>>],
              printmaster |-> [prefixes |-> {1, 2}, bare |-> TRUE, size |-> <<0, 0, 2, 4>>]]

-----------------------------------------------------------------------------
(* One turn of a decoder's loop over its buffer: bytes to drop, the length  *)
(* of a frame, the bytes of it that are not part of the reply.              *)
PsTurn(drop, frame, skip) == [drop |-> drop, frame |-> frame, skip |-> skip]
PsWait == PsTurn(0, 0, 0)

PsPartial(buffer, prefix) ==
  LET fits == {n \in 1 .. Len(prefix) - 1 : n <= Len(buffer) /\ IsSuffix(SubSeq(prefix, 1, n), buffer)}
  IN IF fits = {} THEN 0 ELSE CHOOSE n \in fits : \A m \in fits : m <= n

PsTakeMarked(dialect, buffer) ==
  LET prefix == PsMarked[dialect].prefix
      end == PsMarked[dialect].end
      header == Len(prefix) + 2
      markers == {i \in 1 .. Len(buffer) - Len(prefix) + 1 : SubSeq(buffer, i, i + Len(prefix) - 1) = prefix}
      whole == header + buffer[header] + 1 + Len(end)
      ended == SubSeq(buffer, whole - Len(end) + 1, whole) = end
      check == buffer[whole - Len(end)]
      right == \/ check = PsCheck(SubSeq(buffer, header + 1, header + buffer[header]))
               \/ dialect = "yk" /\ check = 0
  IN IF markers = {} THEN PsTurn(Len(buffer) - PsPartial(buffer, prefix), 0, 0)
     ELSE IF 1 \notin markers THEN PsTurn((CHOOSE i \in markers : \A k \in markers : i <= k) - 1, 0, 0)
     ELSE IF Len(buffer) < header \/ Len(buffer) < whole THEN PsWait
     ELSE IF ended /\ right THEN PsTurn(0, whole, 0)
     ELSE PsTurn(IF dialect # "niimbot" THEN 1 ELSE IF ended THEN whole ELSE 2, 0, 0)

PsTakeReply(dialect, buffer) ==
  LET d == PsReplies[dialect]
      skip == IF buffer[1] \in d.prefixes THEN 1 ELSE 0
      command == buffer[skip + 1]
      known == command \in DOMAIN d.size /\ d.size[command] > 0
  IN IF skip = 0 /\ ~d.bare THEN PsTurn(1, 0, 0)
     ELSE IF Len(buffer) <= skip THEN PsWait
     ELSE IF ~known THEN PsTurn(skip + 1, 0, 0)
     ELSE IF Len(buffer) < skip + d.size[command] THEN PsWait
     ELSE PsTurn(0, skip + d.size[command], skip)

PsTake(dialect, buffer) ==
  IF buffer = <<>> THEN PsWait
  ELSE IF dialect \in DOMAIN PsMarked THEN PsTakeMarked(dialect, buffer)
  ELSE PsTakeReply(dialect, buffer)

(* feed: turns until one does nothing; every other one uses a byte.         *)
PsTurned(dialect, s) ==
  LET t == PsTake(dialect, s.rest)
      used == t.drop + t.frame
      said == [frame |-> SubSeq(s.rest, t.skip + 1, t.frame), at |-> s.at, end |-> s.at + t.frame]
  IN [rest |-> SubSeq(s.rest, used + 1, Len(s.rest)), at |-> s.at + used,
      heard |-> IF t.frame > 0 THEN Append(s.heard, said) ELSE s.heard]
PsFeed(dialect, buffer, at, heard) ==
  FoldLeft(LAMBDA s, turn : PsTurned(dialect, s), [rest |-> buffer, at |-> at, heard |-> heard], buffer)

-----------------------------------------------------------------------------
(* The printer sends frames, damaged frames and noise.                      *)
PsSpoilt(frame) == {[frame EXCEPT ![Len(frame)] = 0], [frame EXCEPT ![4] = 5]}
PsGood(dialect) ==
  IF dialect \in DOMAIN PsMarked THEN {PsFrame(dialect, <<>>), PsFrame(dialect, <<1>>)}
  ELSE {<<1, 3, 1>>, <<1, 4, 1, 3, 0>>} \cup (IF dialect = "printmaster" THEN {<<3, 0>>} ELSE {})
PsBad(dialect) ==
  {<<0>>, <<1>>} \cup (IF dialect \in DOMAIN PsMarked THEN PsSpoilt(PsFrame(dialect, <<>>)) ELSE {<<1, 5>>})

PsLength == FoldLeft(LAMBDA n, i : n + Len(i.bytes), 0, psItems)
PsStream == FoldLeft(LAMBDA all, i : all \o i.bytes, <<>>, psItems)

PsInit ==
  /\ psDialect \in PsDialects /\ psItems = <<>> /\ psCount = 0 /\ psRest = <<>> /\ psHeard = <<>>
PsSend(bytes) ==
  /\ Len(psItems) < PsMost /\ bytes \in PsGood(psDialect) \cup PsBad(psDialect)
  /\ psItems' = Append(psItems, [bytes |-> bytes, at |-> PsLength, intact |-> bytes \in PsGood(psDialect)])
  /\ UNCHANGED <<psDialect, psCount, psRest, psHeard>>

(* Bytes arrive, cut from the stream anywhere.                              *)
PsArrive(n) ==
  /\ n \in 1 .. PsLength - psCount
  /\ LET got == PsFeed(psDialect, psRest \o SubSeq(PsStream, psCount + 1, psCount + n),
                       psCount - Len(psRest), psHeard)
     IN psRest' = got.rest /\ psHeard' = got.heard
  /\ psCount' = psCount + n /\ UNCHANGED <<psDialect, psItems>>

PsNext ==
  \/ \E bytes \in PsGood(psDialect) \cup PsBad(psDialect) : PsSend(bytes)
  \/ \E n \in 1 .. PsLength : PsArrive(n)
PsSpec == PsInit /\ [][PsNext]_psVars

-----------------------------------------------------------------------------
(* How a stream was cut into notifications makes no difference: frames and  *)
(* their offsets, which the waits of v5c.py and client.py compare with what *)
(* had arrived when they began, are those of the stream as one piece.       *)
PsCutsDoNotMatter ==
  LET once == PsFeed(psDialect, SubSeq(PsStream, 1, psCount), 0, <<>>)
  IN psHeard = once.heard /\ psRest = once.rest

(* Every frame that arrived whole is heard, unless a frame that was heard   *)
(* reaches into it, or one that may yet be completed holds it back.  The    *)
(* Niimbot decoder and those of replies drop more than one byte of what is  *)
(* no frame: they owe it only where nothing but frames was sent before.     *)
PsWholeIsHeard ==
  \A k \in DOMAIN psItems :
    LET i == psItems[k]
        end == i.at + Len(i.bytes)
    IN i.intact /\ end <= psCount /\ (psDialect \in {"prefixed", "yk"} \/ \A m \in 1..k : psItems[m].intact)
       => \/ \E h \in ToSet(psHeard) : h.at = i.at /\ h.end = end
          \/ psDialect \in {"prefixed", "yk"}
             /\ ( \/ psCount - Len(psRest) <= i.at
                  \/ \E h \in ToSet(psHeard) : h.at < end /\ h.end > i.at)
=============================================================================
