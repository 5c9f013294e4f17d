--------------------------- MODULE ColorConversions ---------------------------
(***************************************************************************)
(* The converters from libavcodec's pixel formats to those QuickTime shows *)
(* (ColorConversions.c), on x86.  ctx is a CCConverterContext.  The screen *)
(* is a function from addresses to bytes; a converter gives the set of     *)
(* <<address, byte>> it stores.  The sample in row r and column c of plane *)
(* p of the picture is <<p, r, c, s>>, s the bits it is shifted by to fit  *)
(* in a byte; a picture's lines may be longer than its width.              *)
(***************************************************************************)
EXTENDS Integers, Sequences

CONSTANT RegisterBytes   \* the 16 bytes of an SSE register

Bytes == 0 .. RegisterBytes - 1

\* The sample i places behind the start of plane p.
Sample(pic, p, i, shift) == <<p, i \div pic.lines[p], i % pic.lines[p], shift>>

\* What halfwidth pairs of pixels from the pair `first' on become.  Chroma is shared
\* by 2 ^ h pairs.
PackedRow(pic, o, yc, u, v, first, halfwidth, h, shift) ==
  UNION {{<<o + 4 * x,     Sample(pic, 2, u + x \div (2 ^ h), shift)>>,
          <<o + 4 * x + 1, Sample(pic, 1, yc + 2 * x, shift)>>,
          <<o + 4 * x + 2, Sample(pic, 3, v + x \div (2 ^ h), shift)>>,
          <<o + 4 * x + 3, Sample(pic, 1, yc + 2 * x + 1, shift)>>}
           : x \in first .. halfwidth - 1}

Half(n) == n \div 2

Y420toY422_lastrow(ctx, pic, shift) ==
  LET y == Half(ctx.height)
  IN IF ctx.height % 2 = 0 THEN {}
     ELSE PackedRow(pic, ctx.outLineSize * 2 * y, ctx.inLines[1] * 2 * y, ctx.inLines[2] * y,
                    ctx.inLines[2] * y, 0, Half(ctx.width), 0, shift)

-----------------------------------------------------------------------------
\* SSE2: the low and the high halves of two registers, interleaved.
unpacklo(a, b) == [i \in Bytes |-> IF i % 2 = 0 THEN a[i \div 2] ELSE b[i \div 2]]
unpackhi(a, b) == LET half == RegisterBytes \div 2
                  IN unpacklo([i \in Bytes |-> a[(i + half) % RegisterBytes]],
                              [i \in Bytes |-> b[(i + half) % RegisterBytes]])

Load(pic, p, at) == [i \in Bytes |-> Sample(pic, p, at + i, 0)]

StoreRegister(o, r) == {<<o + i, r[i]>> : i \in Bytes}

\* Two registers of luma and one of each chroma become four.
VectorStep(pic, o, yc, u, v, x) ==
  LET uv       == Load(pic, 2, u + RegisterBytes * x)
      vv       == Load(pic, 3, v + RegisterBytes * x)
      y(n)     == Load(pic, 1, yc + RegisterBytes * (2 * x + n))
      chroma_l == unpacklo(uv, vv)
      chroma_h == unpackhi(uv, vv)
      ov(n)    == o + RegisterBytes * (4 * x + n)
  IN StoreRegister(ov(0), unpacklo(chroma_l, y(0)))
       \cup StoreRegister(ov(1), unpackhi(chroma_l, y(0)))
       \cup StoreRegister(ov(2), unpacklo(chroma_h, y(1)))
       \cup StoreRegister(ov(3), unpackhi(chroma_h, y(1)))

\* Faulty: the pixels behind the last whole step are counted in pixels, not in pairs.
VectorRowShortTail(ctx, pic, o, yc, u, v) ==
  LET vWidth == ctx.width \div (2 * RegisterBytes)
  IN UNION {VectorStep(pic, o, yc, u, v, x) : x \in 0 .. vWidth - 1}
       \cup PackedRow(pic, o, yc, u, v, vWidth * 2 * RegisterBytes, Half(ctx.width), 0, 0)

\* Every register holds the luma of RegisterBytes pixels; a step takes two of them.
VectorRow(ctx, pic, o, yc, u, v) ==
  LET vWidth == ctx.width \div (2 * RegisterBytes)
  IN UNION {VectorStep(pic, o, yc, u, v, x) : x \in 0 .. vWidth - 1}
       \cup PackedRow(pic, o, yc, u, v, vWidth * RegisterBytes, Half(ctx.width), 0, 0)

Y420toY422_sse2(ctx, pic) ==
  UNION {VectorRow(ctx, pic, ctx.outLineSize * y, ctx.inLines[1] * y, ctx.inLines[2] * Half(y),
                   ctx.inLines[2] * Half(y)) : y \in 0 .. 2 * Half(ctx.height) - 1}
    \cup Y420toY422_lastrow(ctx, pic, 0)

\* Two rows of luma to one of chroma, in C.
Y420toY422_rows(ctx, pic, shift) ==
  UNION {PackedRow(pic, ctx.outLineSize * y, ctx.inLines[1] * y, ctx.inLines[2] * Half(y),
                   ctx.inLines[2] * Half(y), 0, Half(ctx.width), 0, shift)
           : y \in 0 .. 2 * Half(ctx.height) - 1}
    \cup Y420toY422_lastrow(ctx, pic, shift)

Y420toY422_x86_scalar(ctx, pic) == Y420toY422_rows(ctx, pic, 0)

\* Samples of two bytes: inLines[i] >> 1 of them make a line.
Y420_xtoY422_8(ctx, pic, shift) ==
  LET samples(lines) == [p \in DOMAIN lines |-> Half(lines[p])]
  IN Y420toY422_rows([ctx EXCEPT !.inLines = samples(@)], [pic EXCEPT !.lines = samples(@)],
                     shift)

Y420_9toY422_8(ctx, pic)  == Y420_xtoY422_8(ctx, pic, 1)
Y420_10toY422_8(ctx, pic) == Y420_xtoY422_8(ctx, pic, 2)
Y420_16toY422_8(ctx, pic) == Y420_xtoY422_8(ctx, pic, 8)

Y422toY422(ctx, pic) ==
  UNION {PackedRow(pic, ctx.outLineSize * y, ctx.inLines[1] * y, ctx.inLines[2] * y,
                   ctx.inLines[2] * y, 0, Half(ctx.width), 0, 0) : y \in 0 .. ctx.height - 1}

Y410toY422(ctx, pic) ==
  UNION {PackedRow(pic, ctx.outLineSize * y, ctx.inLines[1] * y, ctx.inLines[2] * (y \div 4),
                   ctx.inLines[2] * (y \div 4), 0, Half(ctx.width), 1, 0)
           : y \in 0 .. ctx.height - 1}

YA420toV408(ctx, pic) ==
  LET rYA == ctx.inLines[1]
      rUV == ctx.inLines[2]
      pixel(x, y) ==
        LET o == ctx.outLineSize * y + 4 * x
        IN {<<o,     Sample(pic, 2, rUV * Half(y) + Half(x), 0)>>,
            <<o + 1, Sample(pic, 1, rYA * y + x, 0)>>,
            <<o + 2, Sample(pic, 3, rUV * Half(y) + Half(x), 0)>>,
            <<o + 3, Sample(pic, 4, rYA * y + x, 0)>>}
  IN UNION {pixel(x, y) : x \in 0 .. ctx.width - 1, y \in 0 .. ctx.height - 1}

-----------------------------------------------------------------------------
\* RGB: every pixel copied, or its bytes turned round.
RGBtoRGB(ctx, pic, bytesPerPixel) ==
  {<<ctx.outLineSize * y + i, Sample(pic, 1, ctx.inLines[1] * y + i, 0)>>
     : y \in 0 .. ctx.height - 1, i \in 0 .. ctx.width * bytesPerPixel - 1}

Swapped(ctx, pic, bytesPerPixel) ==
  {<<ctx.outLineSize * y + bytesPerPixel * x + i,
     Sample(pic, 1, ctx.inLines[1] * y + bytesPerPixel * x + bytesPerPixel - 1 - i, 0)>>
     : y \in 0 .. ctx.height - 1, x \in 0 .. ctx.width - 1, i \in 0 .. bytesPerPixel - 1}

BGR24toRGB24(ctx, pic)     == Swapped(ctx, pic, 3)
RGB32toRGB32Swap(ctx, pic) == Swapped(ctx, pic, 4)
RGB16toRGB16Swap(ctx, pic) == Swapped(ctx, pic, 2)

-----------------------------------------------------------------------------
Constant(ctx, bytesPerPixel, bytes) ==
  {<<ctx.outLineSize * y + i, <<bytes[(i % Len(bytes)) + 1]>>>>
     : y \in 0 .. ctx.height - 1, i \in 0 .. ctx.width * bytesPerPixel - 1}

ClearRGB(ctx, bytesPerPixel) == Constant(ctx, bytesPerPixel, <<0>>)
ClearV408(ctx)               == Constant(ctx, 4, <<128, 16, 128, 235>>)
ClearY422(ctx)               == Constant(ctx, 2, <<128, 16>>)

Subsampled == {"YUVJ420P", "YUV420P"}
DeepFormats == {"YUV420P9LE", "YUV420P10LE", "YUV420P16LE"}
ToY422 == Subsampled \cup DeepFormats \cup {"YUV410P", "YUV422P"}

CCSimplePixFmtForInput(fmt) ==
  CASE fmt \in {"RGB555LE", "RGB555BE"} -> "RGB555BE"
    [] fmt \in {"BGR24", "RGB24"}       -> "RGB24"
    [] fmt \in {"ARGB", "BGRA"}         -> "ARGB"
    [] fmt \in ToY422                   -> "YUV422P"
    [] fmt = "YUVA420P"                 -> "YUV444P"
    [] OTHER                            -> "NONE"

CCOutputPixFmtForInput(fmt) == CCSimplePixFmtForInput(fmt)

\* QuickTime knows the pixel formats the converters write, as 0 no other.
FFPixFmtToFourCC(fmt) ==
  CASE fmt = "RGB555BE" -> "BE555" [] fmt = "RGB24" -> "24RGB" [] fmt = "ARGB" -> "32ARGB"
    [] fmt = "YUV422P" -> "2vuy" [] fmt = "YUV444P" -> "v408" [] OTHER -> "0"

CCIsInvalidImage(ctx) ==
  \/ ctx.inPixFmt \in Subsampled \cup {"YUVA420P"} /\ (ctx.width < 2 \/ ctx.height < 2)
  \/ ctx.inPixFmt = "YUV422P" /\ ctx.height < 2

\* CCOpenSimpleConverter: which converter it is, on a little-endian machine.
SimpleConverter(ctx) ==
  LET fmt == ctx.inPixFmt
  IN CASE fmt \in Subsampled -> IF ctx.inLines[1] % RegisterBytes # 0 THEN "Y420toY422_x86_scalar"
                                ELSE "Y420toY422_sse2"
       [] fmt = "YUV420P9LE"  -> "Y420_9toY422_8"
       [] fmt = "YUV420P10LE" -> "Y420_10toY422_8"
       [] fmt = "YUV420P16LE" -> "Y420_16toY422_8"
       [] fmt = "BGR24"       -> "BGR24toRGB24"
       [] fmt = "ARGB"        -> "RGB32toRGB32Copy"
       [] fmt = "BGRA"        -> "RGB32toRGB32Swap"
       [] fmt = "RGB24"       -> "RGB24toRGB24"
       [] fmt = "RGB555LE"    -> "RGB16toRGB16Swap"
       [] fmt = "RGB555BE"    -> "RGB16toRGB16"
       [] fmt = "YUV410P"     -> "Y410toY422"
       [] fmt = "YUV422P"     -> "Y422toY422"
       [] fmt = "YUVA420P"    -> "YA420toV408"

CCOpenConverter(ctx) ==
  IF CCIsInvalidImage(ctx) \/ CCSimplePixFmtForInput(ctx.inPixFmt) = "NONE" THEN ctx
  ELSE [ctx EXCEPT !.convert = SimpleConverter(ctx)]

\* The block in ctx->convert.
Converted(ctx, pic) ==
  CASE ctx.convert = "Y420toY422_x86_scalar" -> Y420toY422_x86_scalar(ctx, pic)
    [] ctx.convert = "Y420toY422_sse2"       -> Y420toY422_sse2(ctx, pic)
    [] ctx.convert = "Y420_9toY422_8"        -> Y420_9toY422_8(ctx, pic)
    [] ctx.convert = "Y420_10toY422_8"       -> Y420_10toY422_8(ctx, pic)
    [] ctx.convert = "Y420_16toY422_8"       -> Y420_16toY422_8(ctx, pic)
    [] ctx.convert = "BGR24toRGB24"          -> BGR24toRGB24(ctx, pic)
    [] ctx.convert = "RGB32toRGB32Copy"      -> RGBtoRGB(ctx, pic, 4)
    [] ctx.convert = "RGB32toRGB32Swap"      -> RGB32toRGB32Swap(ctx, pic)
    [] ctx.convert = "RGB24toRGB24"          -> RGBtoRGB(ctx, pic, 3)
    [] ctx.convert = "RGB16toRGB16Swap"      -> RGB16toRGB16Swap(ctx, pic)
    [] ctx.convert = "RGB16toRGB16"          -> RGBtoRGB(ctx, pic, 2)
    [] ctx.convert = "Y410toY422"            -> Y410toY422(ctx, pic)
    [] ctx.convert = "Y422toY422"            -> Y422toY422(ctx, pic)
    [] ctx.convert = "YA420toV408"           -> YA420toV408(ctx, pic)

\* CCSimpleClearForPixFmt, and CCClearPicture, which calls what it finds.
Cleared(ctx) ==
  CASE ctx.inPixFmt \in ToY422                   -> ClearY422(ctx)
    [] ctx.inPixFmt \in {"BGR24", "RGB24"}       -> ClearRGB(ctx, 3)
    [] ctx.inPixFmt \in {"ARGB", "BGRA"}         -> ClearRGB(ctx, 4)
    [] ctx.inPixFmt \in {"RGB555LE", "RGB555BE"} -> ClearRGB(ctx, 2)
    [] ctx.inPixFmt = "YUVA420P"                 -> ClearV408(ctx)

\* The screen after the stores.
Stored(screen, stores) ==
  [a \in DOMAIN screen |-> IF \E s \in stores : s[1] = a
                           THEN (CHOOSE s \in stores : s[1] = a)[2] ELSE screen[a]]
=============================================================================
