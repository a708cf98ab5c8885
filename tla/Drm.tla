-------------------------------- MODULE Drm --------------------------------
(***************************************************************************)
(* The drms, kernel/src/gfx/drm/drm.c: virtual displays of which one is on *)
(* the screen.  As the kernel is built (DRM_WRITETHROUGH), what is drawn   *)
(* on the active drm goes to the screen at once and not to the drm's own   *)
(* back buffer; the back buffer is copied to the screen by drm_switch.     *)
(*                                                                         *)
(* A figure is the set of points it plots; a shade gives them colors.  A   *)
(* point is a pair of Integers; a negative one stands for a number near    *)
(* 2^64.  A buffer maps the offsets of its pixels to their colors.         *)
(***************************************************************************)
EXTENDS Integers, Sequences, FiniteSetsExt

CONSTANTS Width, Height,  \* of the screen, in pixels
          Pitch,          \* pixels from a row to the next
          MaxDrms,
          CharWidth, CharHeight, \* of a character: 8 and 16
          Glyph,          \* character -> the pixels of the font it sets, from <<0, 0>>
          FallbackGlyph   \* the same for the built-in font, of half the size

ASSUME DrmAssumption == /\ {Width, Height, Pitch, MaxDrms, CharWidth, CharHeight} \subseteq Nat \ {0}
                        /\ Width <= Pitch /\ CharWidth % 2 = 0 /\ CharHeight % 2 = 0

Drms == 0 .. MaxDrms - 1
Offsets == 0 .. Pitch * Height - 1
Black == 0

Blank == [o \in Offsets |-> Black]

VARIABLE display  \* the screen's and the drms' pixels, and what was drawn outside

DrmInit == display = [active |-> 0, screen |-> Blank,
                      back |-> [n \in Drms |-> Blank], outside |-> {}]

-----------------------------------------------------------------------------
(***************************************************************************)
(* drm_plot and what becomes of a figure.                                  *)
(***************************************************************************)
Offset(p) == Pitch * p[2] + p[1]

\* One column and one row too many are let through.
Plotted(points) == {p \in points : p[1] \in 0 .. Width /\ p[2] \in 0 .. Height}

Colored(buffer, offsets, c) == [o \in Offsets |-> IF o \in offsets THEN c ELSE buffer[o]]

\* shade gives the points of a picture their colors.
Paint(d, n, shade) ==
  LET plotted == Plotted(DOMAIN shade)
      hit == {Offset(p) : p \in plotted}
      Over(buffer) == [o \in Offsets |->
                         IF o \in hit THEN shade[CHOOSE p \in plotted : Offset(p) = o]
                                      ELSE buffer[o]]
      e == [d EXCEPT !.outside = @ \cup (hit \ Offsets)]
  IN  IF d.active = n THEN [e EXCEPT !.screen = Over(@)] ELSE [e EXCEPT !.back[n] = Over(@)]

InColor(points, c) == [p \in points |-> c]

\* drm_clear: the back buffer only, and as many pixels as the screen shows.
DrmClear(d, n) == [d EXCEPT !.back[n] = Colored(@, 0 .. Width * Height - 1, Black)]

DrmSwitch(d, n) == [d EXCEPT !.active = n, !.screen = d.back[n]]

-----------------------------------------------------------------------------
(***************************************************************************)
(* Figures.                                                                *)
(***************************************************************************)
Sign(n) == IF n > 0 THEN 1 ELSE IF n < 0 THEN -1 ELSE 0
Abs(n) == n * Sign(n)

\* Bresenham: a step along the long side, with one along the short side when
\* the error has run out.
DrmPlotLine(p, q) ==
  LET dx == q[1] - p[1]
      dy == q[2] - p[2]
      flat == Abs(dx) > Abs(dy)
      slow == IF flat THEN Abs(dy) ELSE Abs(dx)
      fast == IF flat THEN Abs(dx) ELSE Abs(dy)
      pen[t \in 0 .. fast] ==
        IF t = 0 THEN [x |-> p[1], y |-> p[2], err |-> fast \div 2]
        ELSE LET last == pen[t - 1]
                 err == last.err - slow
             IN  IF err < 0
                   THEN [x |-> last.x + Sign(dx), y |-> last.y + Sign(dy), err |-> err + fast]
                   ELSE [x |-> last.x + IF flat THEN Sign(dx) ELSE 0,
                         y |-> last.y + IF flat THEN 0 ELSE Sign(dy), err |-> err]
  IN  {<<pen[t].x, pen[t].y>> : t \in 0 .. fast}

\* Mutant: two of the four sides.
DrmPlotRectHalf(p, q) == DrmPlotLine(p, <<q[1], p[2]>>) \cup DrmPlotLine(p, <<p[1], q[2]>>)

DrmPlotRect(p, q) ==
  LET a == <<q[1], p[2]>>
      b == <<p[1], q[2]>>
  IN  DrmPlotLine(p, a) \cup DrmPlotLine(p, b) \cup DrmPlotLine(b, q) \cup DrmPlotLine(a, q)

\* The eight mirror images of <<x, y>> around p.
Mirrored(p, x, y) ==
  {<<p[1] + i * m[1], p[2] + j * m[2]>> : i \in {1, -1}, j \in {1, -1}, m \in {<<x, y>>, <<y, x>>}}

\* The octant from the top to the diagonal; no circle has more than r steps.
DrmPlotCircle(p, r) ==
  LET pen[t \in 0 .. r] ==
        IF t = 0 THEN [x |-> 0, y |-> r, f |-> 1 - r]
        ELSE LET last == pen[t - 1]
                 y == IF last.f >= 0 THEN last.y - 1 ELSE last.y
                 f == IF last.f >= 0 THEN last.f - 2 * y ELSE last.f
             IN  IF last.x >= last.y THEN last
                 ELSE [x |-> last.x + 1, y |-> y, f |-> f + 2 * (last.x + 1) + 1]
  IN  Mirrored(p, 0, r) \cup UNION {Mirrored(p, pen[t].x, pen[t].y) : t \in 1 .. r}

DrmFillRect(p, q) == (p[1] .. q[1] - 1) \X (p[2] .. q[2] - 1)

DrmFillRelRect(p, w, h) == (p[1] .. p[1] + w - 1) \X (p[2] .. p[2] + h - 1)

-----------------------------------------------------------------------------
(***************************************************************************)
(* Characters.                                                             *)
(***************************************************************************)
Cell(p) == DrmFillRelRect(p, CharWidth, CharHeight)

\* The pixels of a font of which each stands for a square of `scale`.
Scaled(p, pixels, scale) ==
  UNION {DrmFillRelRect(<<p[1] + scale * g[1], p[2] + scale * g[2]>>, scale, scale) : g \in pixels}

\* The mask of a row tests the bits of the row above it: the built-in font is
\* drawn one row down, without its last row.
FallbackPixels(ch) ==
  {<<g[1], g[2] + 1>> : g \in {h \in FallbackGlyph[ch] : h[2] + 1 < CharHeight \div 2}}

DrmPlotChar(font, p, ch) ==
  IF font THEN Scaled(p, Glyph[ch], 1) ELSE Scaled(p, FallbackPixels(ch), 2)

DrmPlotCharSolid(font, p, ch, fg, bg) ==
  LET lit == DrmPlotChar(font, p, ch)
  IN  [q \in Cell(p) |-> IF q \in lit THEN fg ELSE bg]

-----------------------------------------------------------------------------
(***************************************************************************)
(* The device files of the drms, whose data are the pixels in reading      *)
(* order without the padding of the rows.  Offsets and sizes count pixels. *)
(***************************************************************************)
DrmInRange(o, s) == o <= Width * Height /\ o + s <= Width * Height

Place(i) == <<i % Width, i \div Width>>

\* data has a color for each pixel.
DrmWrite(d, n, o, data) ==
  Paint(d, n, [p \in {Place(o + i - 1) : i \in DOMAIN data} |->
                 data[p[2] * Width + p[1] - o + 1]])

\* Mutant: the back buffer, too, is read from o * i.
DrmReadProduct(d, n, o, s) ==
  [i \in 1 .. s |-> IF d.active = n THEN d.screen[o * (i - 1)] ELSE d.back[n][o * (i - 1)]]

\* The active drm is read from o * i on the screen; the padding counts.
DrmRead(d, n, o, s) ==
  [i \in 1 .. s |-> IF d.active = n THEN d.screen[o * (i - 1)] ELSE d.back[n][o + i - 1]]
=============================================================================
