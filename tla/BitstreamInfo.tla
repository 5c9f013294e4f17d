---------------------------- MODULE BitstreamInfo ----------------------------
(***************************************************************************)
(* The parsers of the video codec (bitstream_info.c): what they take from  *)
(* H.264's set-up data, and what they say of the frames of a sample.       *)
(*                                                                         *)
(* Bytes are numbers.  The first byte of a NAL unit is its own: 32 times   *)
(* nal_ref_idc and nal_unit_type.  Behind it every syntax element takes a  *)
(* byte, but for the head of a slice: 16 + slice_type has the number of    *)
(* its first macroblock too, which makes it other than 0.                  *)
(***************************************************************************)
EXTENDS Integers, SequencesExt

CONSTANT NAL_PEEK_SIZE   \* the 32 bytes of a NAL unit that are looked at

At(bytes, i) == IF i \in DOMAIN bytes THEN bytes[i] ELSE 0

\* A number of n bytes, the highest first.
BigEndian(bytes, at, n) ==
  FoldLeft(LAMBDA v, i : 256 * v + At(bytes, at + i), 0, [i \in 1 .. n |-> i - 1])

-----------------------------------------------------------------------------
NalByte(s, b) ==
  CASE s.ended                -> s
    [] ~s.ended /\ b = 0      -> [s EXCEPT !.nulls = @ + 1, !.out = Append(@, 0)]
    [] ~s.ended /\ b # 0 /\ s.nulls = 2 /\ b < 3 ->
         [s EXCEPT !.ended = TRUE, !.out = SubSeq(@, 1, Len(@) - 2)]
    [] ~s.ended /\ b = 3 /\ s.nulls = 2 -> [s EXCEPT !.nulls = 0]
    [] OTHER                  -> [s EXCEPT !.nulls = 0, !.out = Append(@, b)]

\* The NAL unit without its first byte and without escapes; ok when there is any of it.
decode_nal(bytes) ==
  LET s == FoldLeft(NalByte, [nulls |-> 0, ended |-> FALSE, out |-> <<>>],
                    SubSeq(bytes, 2, Len(bytes)))
  IN [ok |-> bytes # <<>> /\ s.out # <<>>, out |-> s.out,
      type |-> At(bytes, 1) % 32, nal_ref_idc |-> (At(bytes, 1) \div 32) % 4]

-----------------------------------------------------------------------------
\* The skippers give the place behind what stands at p.  A flag that announces n
\* elements:
Flag(b, p, n) == p + 1 + (IF At(b, p) = 0 THEN 0 ELSE n)

\* The deltas of a scaling list, of which i were read; it ends when one leads to 0.
RECURSIVE ScalingDeltas(_, _, _, _, _)
ScalingDeltas(b, p, i, size, last) ==
  LET next == (last + At(b, p)) % 256
  IN IF i = size THEN p
     ELSE IF next = 0 THEN p + 1
     ELSE ScalingDeltas(b, p + 1, i + 1, size, next)

skip_scaling_list(b, p, size) ==
  IF At(b, p) = 0 THEN p + 1 ELSE ScalingDeltas(b, p + 1, 0, size, 8)

skip_scaling_matrices(b, p) ==
  IF At(b, p) = 0 THEN p + 1
  ELSE FoldLeft(LAMBDA q, size : skip_scaling_list(b, q, size), p + 1,
                <<16, 16, 16, 16, 16, 16, 64, 64>>)

skip_hrd_parameters(b, p) == p + 3 + 3 * (At(b, p) + 1) + 4

\* What follows the profile, the level and the id in profiles from High on.
AfterHigh(b) ==
  IF b[1] < 100 THEN 5
  ELSE skip_scaling_matrices(b, 5 + (IF At(b, 5) = 3 THEN 2 ELSE 1) + 3)

\* The place behind the picture order count, whose type stands at p.
AfterPoc(b, p) ==
  CASE At(b, p) = 0 -> p + 2
    [] At(b, p) = 1 -> p + 5 + At(b, p + 4)
    [] OTHER        -> p + 1

\* Faulty: low_delay_hrd_flag is only read behind the parameters of the NAL HRD.
BitstreamRestrictionNalOnly(b, p) ==
  LET aspect   == IF At(b, p) # 0 /\ At(b, p + 1) = 255 THEN p + 4 ELSE Flag(b, p, 1)
      overscan == Flag(b, aspect, 1)
      signal   == IF At(b, overscan) = 0 THEN overscan + 1 ELSE Flag(b, overscan + 3, 3)
      timing   == Flag(b, Flag(b, signal, 2), 3)
      hrd(q)   == IF At(b, q) = 0 THEN q + 1 ELSE skip_hrd_parameters(b, q + 1)
  IN hrd(hrd(timing)) + (IF At(b, timing) = 0 THEN 0 ELSE 1) + 1

\* The place of the bitstream restriction flag in the VUI parameters from p on.
BitstreamRestriction(b, p) ==
  LET aspect   == IF At(b, p) # 0 /\ At(b, p + 1) = 255 THEN p + 4 ELSE Flag(b, p, 1)
      overscan == Flag(b, aspect, 1)
      signal   == IF At(b, overscan) = 0 THEN overscan + 1 ELSE Flag(b, overscan + 3, 3)
      timing   == Flag(b, Flag(b, signal, 2), 3)
      hrd(q)   == IF At(b, q) = 0 THEN q + 1 ELSE skip_hrd_parameters(b, q + 1)
      lowDelay == IF At(b, timing) = 0 /\ At(b, hrd(timing)) = 0 THEN 0 ELSE 1
  IN hrd(hrd(timing)) + lowDelay + 1

\* decode_sps: b is the sequence parameter set.  A field it does not have stays.
decode_sps(context, b) ==
  LET a           == AfterHigh(b)
      q           == AfterPoc(b, a + 1)
      mbsOnly     == At(b, q + 4)
      crop        == q + 6 + (IF mbsOnly = 0 THEN 1 ELSE 0)
      vui         == Flag(b, crop, 4)
      restriction == BitstreamRestriction(b, vui + 1)
  IN [context EXCEPT
       !.profile_idc = b[1],
       !.level_idc = b[3],
       !.chroma_format_idc = IF b[1] >= 100 THEN b[5] ELSE @,
       !.log2_max_frame_num = At(b, a) + 4,
       !.poc_type = At(b, a + 1),
       !.log2_max_poc_lsb = IF At(b, a + 1) = 0 THEN At(b, a + 2) + 4 ELSE @,
       !.gaps_in_frame_num_value_allowed_flag = At(b, q + 1),
       !.frame_mbs_only_flag = mbsOnly,
       !.num_reorder_frames = IF At(b, vui) # 0 /\ At(b, restriction) # 0
                              THEN At(b, restriction + 6) ELSE @]

decode_pps(context, b) == [context EXCEPT !.pic_order_present_flag = At(b, 4)]

-----------------------------------------------------------------------------
\* libavcodec's numbers of picture types.
TypeI == 1
TypeP == 2
TypeB == 3
slice_type_map == <<TypeP, TypeP, TypeI, 6, 5>>

\* The type of the slice whose head b is, 0 when it has none.  The times in the rest
\* of the header decide nothing.
decode_slice_header(b) ==
  LET slice_type == At(b, 1) - 16
  IN IF slice_type \in 0 .. 9 THEN slice_type_map[(slice_type % 5) + 1] ELSE 0

\* One NAL unit's part in what is said of the frame.
NalFound(s, nal) ==
  LET type   == decode_slice_header(nal.out)
      lowest == IF type # 0 /\ type < s.lowestType THEN type ELSE s.lowestType
  IN IF nal.ok /\ nal.type \in {1, 2}
     THEN [s EXCEPT !.ret = @ \/ type # 0,
                    !.skippable = @ /\ ~(type # 0 /\ nal.nal_ref_idc # 0),
                    !.lowestType = IF lowest = TypeI THEN TypeP ELSE lowest]
     ELSE IF nal.ok /\ nal.type = 5
     THEN [s EXCEPT !.ret = TRUE, !.skippable = FALSE, !.lowestType = TypeI]
     ELSE s

\* Where a NAL unit lies: the place of its first byte, counted from 0, and its size.
\* Behind a length; a unit of one byte is passed over.
LengthNal(context, buf, at) ==
  LET n    == context.nal_length_size
      size == BigEndian(buf, at + 1, n)
  IN [more |-> at + n <= Len(buf) /\ size \in 1 .. Len(buf), at |-> at + n, size |-> size,
      look |-> size > 1]

\* The zeros right before place j, back to place `from'.
ZerosBefore(buf, from, j) ==
  LET starts == {i \in from .. j : \A k \in i .. j - 1 : buf[k + 1] = 0}
  IN j - (CHOOSE i \in starts : \A k \in starts : i <= k)

First(S, otherwise) == IF S = {} THEN otherwise ELSE CHOOSE i \in S : \A j \in S : i <= j

\* Behind a start code, up to the next.  The zeros counted before the first one's 1
\* count on behind it.
StartCodeNal(buf, at) ==
  LET size  == Len(buf)
      one   == First({j \in at .. size - 1 : buf[j + 1] = 1 /\ ZerosBefore(buf, at, j) >= 2},
                     size)
      start == one + 1
      nuls(j) == LET z == ZerosBefore(buf, start, j)
                 IN IF z = j - start THEN z + ZerosBefore(buf, at, one) ELSE z
      next  == First({j \in start .. size - 1 : buf[j + 1] \in {0, 1} /\ nuls(j) = 2}, size)
  IN [more |-> start < size, at |-> start, size |-> next - start - (IF next < size THEN 2 ELSE 0),
      look |-> TRUE]

Lesser(a, b) == IF a < b THEN a ELSE b

RECURSIVE NalsFrom(_, _, _, _)
NalsFrom(context, buf, at, s) ==
  LET nal  == IF context.is_avc THEN LengthNal(context, buf, at) ELSE StartCodeNal(buf, at)
      peek == SubSeq(buf, nal.at + 1, Lesser(Len(buf), nal.at + Lesser(nal.size, NAL_PEEK_SIZE)))
  IN IF ~nal.more THEN s
     ELSE NalsFrom(context, buf, nal.at + nal.size,
                   IF nal.look THEN NalFound(s, decode_nal(peek)) ELSE s)

decode_nals(context, buf) ==
  NalsFrom(context, buf, 0, [ret |-> FALSE, skippable |-> TRUE, lowestType |-> 20])

\* libavcodec's split: the place of the first NAL unit behind a sequence parameter set
\* that is no header, 0 when there is none.
split(buf) ==
  LET codes   == {j \in 3 .. Len(buf) - 1 : buf[j - 2] = 0 /\ buf[j - 1] = 0 /\ buf[j] = 1}
      kind(j) == buf[j + 1] % 32
      start(j) == IF j > 3 /\ buf[j - 3] = 0 THEN j - 4 ELSE j - 3
      frames  == {j \in codes : kind(j) \notin {7, 8, 9} /\ \E k \in codes : k < j /\ kind(k) = 7}
  IN First({start(j) : j \in frames}, 0)

\* The rounds of parse_h264_stream: the headers before the first frame, or all the rest.
RECURSIVE Rounds(_, _, _, _, _)
AfterRound(context, buf, from, upto, type, found) ==
  LET told == IF found.lowestType = 20 THEN type ELSE found.lowestType
  IN IF ~found.ret /\ upto < Len(buf) THEN Rounds(context, buf, from + upto, upto, told)
     ELSE [size |-> upto, type |-> told, skippable |-> found.skippable]

Rounds(context, buf, from, size, type) ==
  LET rest == SubSeq(buf, from + 1, Lesser(Len(buf), from + Len(buf) - size))
      end  == split(rest)
  IN AfterRound(context, buf, from, IF end = 0 THEN Len(buf) ELSE size + end, type,
                decode_nals(context, IF end = 0 THEN rest ELSE SubSeq(rest, 1, end)))

parse_h264_stream(context, buf) == Rounds(context, buf, 0, 0, 0)

\* parse_mpeg12_stream, and an MPEG-4 frame: libavcodec reads the type of the picture.
parse_mpeg12_stream(buf) == [size |-> Len(buf), type |-> buf[1], skippable |-> buf[1] = TypeB]

-----------------------------------------------------------------------------
init_h264_parser ==
  [is_avc |-> FALSE, nal_length_size |-> 2, profile_idc |-> 0, level_idc |-> 0,
   chroma_format_idc |-> 0, log2_max_frame_num |-> 0, poc_type |-> 0,
   log2_max_poc_lsb |-> 0, frame_mbs_only_flag |-> 0,
   gaps_in_frame_num_value_allowed_flag |-> 0, num_reorder_frames |-> 0,
   pic_order_present_flag |-> 0]

\* `count' parameter sets, each behind its size of two bytes, from place s.at on, while
\* they fit.
RECURSIVE ParameterSets(_, _, _, _)
ParameterSets(buf, s, count, areSps) ==
  LET size == BigEndian(buf, s.at, 2)
      nal  == decode_nal(SubSeq(buf, s.at + 2, s.at + 1 + size))
  IN IF count = 0 THEN s
     ELSE IF size = 0 \/ s.at + 1 + size > Len(buf) THEN [s EXCEPT !.ok = FALSE]
     ELSE ParameterSets(buf, [s EXCEPT !.at = @ + 2 + size,
                                       !.context = IF ~nal.ok THEN @
                                                   ELSE IF areSps THEN decode_sps(@, nal.out)
                                                   ELSE decode_pps(@, nal.out)],
                        count - 1, areSps)

PictureParameterSets(buf, s) ==
  IF s.ok THEN ParameterSets(buf, [s EXCEPT !.at = @ + 1], At(buf, s.at), FALSE) ELSE s

LengthSize(buf, s) ==
  IF s.ok THEN [s EXCEPT !.context.nal_length_size = (buf[5] % 4) + 1] ELSE s

\* The avcC atom: is_avc is set even when the rest is not as it should be.
parse_extra_data_h264(context, buf) ==
  IF Len(buf) <= 6 THEN [ok |-> FALSE, context |-> context, at |-> 0]
  ELSE LengthSize(buf, PictureParameterSets(buf,
         ParameterSets(buf, [ok |-> TRUE, context |-> [context EXCEPT !.is_avc = TRUE], at |-> 7],
                       At(buf, 6) % 32, TRUE)))

-----------------------------------------------------------------------------
\* A parser: "none", or which one and its context.
NoParser == [kind |-> "none", context |-> init_h264_parser]

ffusionParserInit(codec) ==
  [NoParser EXCEPT !.kind = CASE codec = "MPEG4" -> "mpeg4" [] codec = "H264" -> "h264"
                              [] codec \in {"MPEG1", "MPEG2"} -> "mpeg12" [] OTHER -> "none"]

Learned(parser, r) == [ok |-> r.ok, parser |-> [parser EXCEPT !.context = r.context]]

ffusionParseExtraData(parser, buf) ==
  IF parser.kind = "h264" THEN Learned(parser, parse_extra_data_h264(parser.context, buf))
  ELSE [ok |-> TRUE, parser |-> parser]

ffusionParse(parser, buf) ==
  IF parser.kind = "h264" THEN parse_h264_stream(parser.context, buf)
  ELSE parse_mpeg12_stream(buf)

ffusionIsParsedVideoDecodable(parser, decodeAllProfiles) ==
  IF parser.kind = "h264" /\ parser.context.frame_mbs_only_flag = 0 THEN "CANNOT_DECODE"
  ELSE IF /\ parser.kind = "h264" /\ ~decodeAllProfiles
          /\ parser.context.profile_idc < 100 /\ parser.context.num_reorder_frames < 2
  THEN "PREFER_NOT_DECODE"
  ELSE "PREFER_DECODE"
=============================================================================
