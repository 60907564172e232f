---------------------------- MODULE PageEncodings ----------------------------
(* How a page becomes what is sent, and what a printer that knows the       *)
(* format reads back: lines of runs or of bits (protocol/encoding.py,       *)
(* families/legacy.py), Niimbot rows (families/niimbot_core.py) and the     *)
(* compressed bands of V5C (families/v5c.py, protocol/_lzo.py).  A byte of  *)
(* pixels is the set of its bits that are set; the limits are parameters.   *)
EXTENDS Integers, Sequences, FiniteSets, SequencesExt

CONSTANTS
  EnByte,        \* 8 pixels
  EnRun,         \* 127, the longest run
  EnRepeat,      \* 255, the most repetitions of a row
  EnSparse,      \* 6, _INDEXED_ROW_THRESHOLD
  EnSpeedEvery,  \* 200 lines
  EnBand,        \* 20, _V5C_BAND_ROWS
  EnLzo,         \* [first |-> 238, run |-> 18, match |-> 31, more |-> 255, distance |-> 16384]
  EnLines,       \* pages of legacy printers, as sequences of rows
  EnRows,        \* pages of Niimbot printers
  EnGray         \* pages of V5C printers, rows of bytes

EncodingsAssumption ==
  /\ EnLzo.first >= 3 /\ EnLzo.run >= 3 /\ EnLzo.match >= 1
  /\ {EnByte, EnRun, EnRepeat, EnBand} \subseteq Nat \ {0}
ASSUME EncodingsAssumption

VARIABLES enKind, enPage, enSent    \* what kind of page, the page, and what is sent for it
enVars == <<enKind, enPage, enSent>>

-----------------------------------------------------------------------------
(* Maximal runs of equal members: [of, count], and where they begin.        *)
EnRuns(seq) ==
  LET begins == {i \in DOMAIN seq : i = 1 \/ seq[i] # seq[i - 1]}
      After(i) == {k \in DOMAIN seq : k >= i /\ \A m \in i..k : seq[m] = seq[i]}
  IN [n \in 1..Cardinality(begins) |->
        LET i == CHOOSE b \in begins : Cardinality({c \in begins : c <= b}) = n
        IN [of |-> seq[i], at |-> i, count |-> Cardinality(After(i))]]

(* encode_run and the loop of _encode_row_run: full ones, then what is left.*)
EnParts(count, most) ==
  LET full == (count - 1) \div most
  IN [i \in 1 .. full + 1 |-> IF i <= full THEN most ELSE count - full * most]
EnRle(line) ==
  FoldLeft(LAMBDA all, r : all \o [i \in DOMAIN EnParts(r.count, EnRun) |->
                                     [color |-> r.of, count |-> EnParts(r.count, EnRun)[i]]],
           <<>>, EnRuns(line))

(* pack_line: the last byte is filled up with white.                        *)
EnBytes(width) == (width + EnByte - 1) \div EnByte
EnPack(line, lsb) ==
  [b \in 1 .. EnBytes(Len(line)) |->
     {k \in 0 .. EnByte - 1 :
        LET i == (b - 1) * EnByte + (IF lsb THEN k ELSE EnByte - 1 - k) + 1
        IN i <= Len(line) /\ line[i] = 1}]

(* _line_packets: runs where they are no longer than bits.                  *)
EnPacket(line, lsb) ==
  IF Len(EnRle(line)) <= EnBytes(Len(line)) THEN [is |-> "runs", data |-> EnRle(line)]
  ELSE [is |-> "bits", data |-> EnPack(line, lsb)]
EnLinePackets(page, lsb) ==
  FoldLeft(LAMBDA all, r : all \o <<EnPacket(page[r], lsb)>>
                             \o (IF r % EnSpeedEvery = 0 THEN <<[is |-> "speed", data |-> <<>>]>> ELSE <<>>),
           <<>>, [r \in DOMAIN page |-> r])

-----------------------------------------------------------------------------
(* encode_d_rows: equal rows together, empty ones without data, those with  *)
(* few dots by index.                                                       *)
EnDots(row) == {i \in DOMAIN row : row[i] = 1}
EnCounts(data) ==
  LET third == Len(data) \div 3
      Bits(bytes) == FoldLeft(LAMBDA n, b : n + Cardinality(b), 0, bytes)
  IN IF third > 0 /\ Len(data) <= third * 3
     THEN [t \in 1..3 |-> Bits(SubSeq(data, (t - 1) * third + 1, t * third))]
     ELSE <<0, Bits(data) % 256, Bits(data) \div 256>>
EnIndexes(data) ==
  FoldLeft(LAMBDA all, b : all \o [i \in 1 .. Cardinality(data[b]) |->
                                     (b - 1) * EnByte
                                     + (CHOOSE k \in 0 .. EnByte - 1 :
                                          EnByte - 1 - k \in data[b] /\ Cardinality({m \in data[b] : m >= EnByte - 1 - k}) = i)],
           <<>>, [b \in DOMAIN data |-> b])
EnRowRun(run) ==
  LET data == EnPack(run.of, FALSE)
      parts == EnParts(run.count, EnRepeat)
      Frame(row, repeat) ==
        IF EnDots(run.of) = {} THEN [is |-> "empty", row |-> row, repeat |-> repeat]
        ELSE [is |-> IF Cardinality(EnDots(run.of)) <= EnSparse THEN "indexed" ELSE "bitmap",
              row |-> row, repeat |-> repeat, counts |-> EnCounts(data),
              data |-> IF Cardinality(EnDots(run.of)) <= EnSparse THEN EnIndexes(data) ELSE data]
  IN [i \in DOMAIN parts |-> Frame(run.at - 1 + (i - 1) * EnRepeat, parts[i])]
EnRowFrames(page) == FoldLeft(LAMBDA all, r : all \o EnRowRun(r), <<>>, EnRuns(page))

-----------------------------------------------------------------------------
(* _find_matches: the longest of what was there before within the window,   *)
(* the nearest of these, wherever three bytes agree; then past it.          *)
EnAgree(data, i, k) ==
  Cardinality({n \in 1 .. Len(data) - i + 1 : \A m \in 0 .. n - 1 : data[k + m] = data[i + m]})
EnMatchAt(data, i) ==
  LET before == {k \in 1 .. i - 1 : i - k <= EnLzo.distance /\ EnAgree(data, i, k) >= 3}
      best == {k \in before : \A m \in before : EnAgree(data, i, m) <= EnAgree(data, i, k)}
      nearest == CHOOSE k \in best : \A m \in best : m <= k
  IN IF before = {} THEN [length |-> 0, distance |-> 0]
     ELSE [length |-> EnAgree(data, i, nearest), distance |-> i - nearest]
EnMatches(data) ==
  LET taken[i \in 1 .. Len(data) + 1] ==
        IF i > Len(data) THEN <<>>
        ELSE LET m == EnMatchAt(data, i) IN
             IF m.length = 0 THEN taken[i + 1]
             ELSE <<[at |-> i, length |-> m.length, distance |-> m.distance]>> \o taken[i + m.length]
  IN taken[1]

(* A length: what the instruction itself says, and its extension.           *)
EnLength(n, most) == [own |-> IF n <= most THEN n ELSE 0,
                      more |-> IF n <= most THEN <<>> ELSE EnParts(n - most, EnLzo.more)]
EnLiterals(bytes, initial) ==
  IF bytes = <<>> THEN <<>>
  ELSE <<[is |-> IF initial /\ Len(bytes) <= EnLzo.first THEN "first" ELSE "run",
          length |-> IF initial /\ Len(bytes) <= EnLzo.first THEN [own |-> Len(bytes), more |-> <<>>]
                     ELSE EnLength(Len(bytes), EnLzo.run),
          bytes |-> bytes, distance |-> 0]>>
EnMatch(m, trailing) ==
  <<[is |-> "match", length |-> EnLength(m.length - 2, EnLzo.match), bytes |-> trailing, distance |-> m.distance]>>

(* compress_lzo1x_1: up to three literals go with the match before them.    *)
EnCompress(data) ==
  LET ms == EnMatches(data)
      Gap(i) == SubSeq(data, ms[i].at + ms[i].length,
                       IF i < Len(ms) THEN ms[i + 1].at - 1 ELSE Len(data))
  IN FoldLeft(LAMBDA all, i : all \o EnMatch(ms[i], IF Len(Gap(i)) <= 3 THEN Gap(i) ELSE <<>>)
                                  \o (IF Len(Gap(i)) <= 3 THEN <<>> ELSE EnLiterals(Gap(i), FALSE)),
              EnLiterals(SubSeq(data, 1, IF ms = <<>> THEN Len(data) ELSE ms[1].at - 1), TRUE),
              [i \in DOMAIN ms |-> i])

(* _build_a5_frames.                                                        *)
EnBands(page) ==
  [b \in 1 .. (Len(page) + EnBand - 1) \div EnBand |->
     EnCompress(FlattenSeq(SubSeq(page, (b - 1) * EnBand + 1,
                                  IF b * EnBand < Len(page) THEN b * EnBand ELSE Len(page))))]

-----------------------------------------------------------------------------
EnInit ==
  /\ \/ enKind \in {"lsb", "msb"} /\ enPage \in EnLines
     \/ enKind = "rows" /\ enPage \in EnRows
     \/ enKind = "gray" /\ enPage \in EnGray
  /\ enSent = <<>>
EnEncode ==
  /\ enSent = <<>>
  /\ enSent' = CASE enKind = "rows" -> EnRowFrames(enPage)
                 [] enKind = "gray" -> EnBands(enPage)
                 [] OTHER -> EnLinePackets(enPage, enKind = "lsb")
  /\ UNCHANGED <<enKind, enPage>>
EnNext == EnEncode
EnSpec == EnInit /\ [][EnNext]_enVars

-----------------------------------------------------------------------------
(* A printer reads: a run is its pixels, a byte its bits, in its order.     *)
EnLineRead(packet, lsb, width) ==
  LET runs == FoldLeft(LAMBDA all, r : all \o [i \in 1 .. r.count |-> r.color], <<>>, packet.data)
      bits == [i \in 1 .. width |->
                 LET k == (i - 1) % EnByte
                     b == packet.data[(i - 1) \div EnByte + 1]
                 IN IF (IF lsb THEN k ELSE EnByte - 1 - k) \in b THEN 1 ELSE 0]
  IN IF packet.is = "runs" THEN runs ELSE bits

(* It prints frames of rows downwards; a frame that is not where the one    *)
(* before it ended is not printed.                                          *)
EnRowRead(frame, width) ==
  [i \in 1 .. width |->
     CASE frame.is = "empty" -> 0
       [] frame.is = "indexed" -> IF i - 1 \in ToSet(frame.data) THEN 1 ELSE 0
       [] OTHER -> IF EnByte - 1 - ((i - 1) % EnByte) \in frame.data[(i - 1) \div EnByte + 1] THEN 1 ELSE 0]
EnRowsRead(frames, width) ==
  FoldLeft(LAMBDA page, f : IF f.row # Len(page) THEN page
                            ELSE page \o [i \in 1 .. f.repeat |-> EnRowRead(f, width)],
           <<>>, frames)

(* An LZO1X decompressor: literals, and bytes from before, one by one.      *)
EnTold(length, most) ==
  IF length.own > 0 THEN length.own ELSE most + FoldLeft(LAMBDA n, x : n + x, 0, length.more)
EnExpand(instructions) ==
  LET Again(data, distance, n) ==
        FoldLeft(LAMBDA d, i : Append(d, d[Len(d) - distance + 1]), data, [i \in 1..n |-> i])
      Do(data, x) ==
        IF x.is = "match" THEN Again(data, x.distance, EnTold(x.length, EnLzo.match) + 2) \o x.bytes
        ELSE data \o SubSeq(x.bytes, 1, EnTold(x.length, EnLzo.run))
  IN FoldLeft(Do, <<>>, instructions)

(* What is read back is the page, and every number that was sent fits its   *)
(* field; runs are sent only where they are no longer than bits, the dots   *)
(* counted are those of the row, and no copy reaches beyond the window or   *)
(* before the data.                                                         *)
EnLinesReadBack ==
  LET packets == SelectSeq(enSent, LAMBDA p : p.is # "speed")
      width == Len(enPage[1])
  IN /\ [r \in DOMAIN packets |-> EnLineRead(packets[r], enKind = "lsb", width)] = enPage
     /\ \A i \in DOMAIN packets : LET p == packets[i] IN
          /\ Len(p.data) <= EnBytes(width)
          /\ p.is = "runs" => \A r \in ToSet(p.data) : r.count \in 1..EnRun
EnRowsReadBack ==
  /\ EnRowsRead(enSent, Len(enPage[1])) = enPage
  /\ \A i \in DOMAIN enSent : LET f == enSent[i] IN
       /\ f.repeat \in 1..EnRepeat
       /\ f.is # "empty" =>
            f.counts[1] + f.counts[2] + (IF Len(f.counts) = 3 THEN f.counts[3] ELSE 0) = Cardinality(EnDots(enPage[f.row + 1]))
EnGrayReadBack ==
  /\ FlattenSeq([b \in DOMAIN enSent |-> EnExpand(enSent[b])]) = FlattenSeq(enPage)
  /\ \A b \in DOMAIN enSent : \A i \in DOMAIN enSent[b] : LET x == enSent[b][i] IN
       /\ x.is = "match" => x.distance \in 1..EnLzo.distance /\ Len(x.bytes) <= 3
       /\ x.is = "run" => Len(x.bytes) >= 4
       /\ \A n \in ToSet(x.length.more) : n \in 1..EnLzo.more
EnPageReadBack ==
  enSent # <<>> => CASE enKind = "rows" -> EnRowsReadBack
                     [] enKind = "gray" -> EnGrayReadBack
                     [] OTHER -> EnLinesReadBack
=============================================================================
