------------------------------ MODULE VtProofs ------------------------------
(***************************************************************************)
(* Proofs about Vt: on a screen of any size, whatever is printed by however *)
(* many CPUs, the cursor stays inside and the screen shows the cells.       *)
(***************************************************************************)
EXTENDS Vt, Numbers, FiniteSetTheorems, SequenceTheorems

\* Two digits are known from the number they make, and so is each digit.
LEMMA DigitsApart ==
  ASSUME NEW r \in Nat, r > 0, NEW a \in Nat, NEW b \in 0 .. r - 1
  PROVE  (r * a + b) \div r = a /\ (r * a + b) % r = b
<1> DEFINE n == r * a + b
           q == n \div r
           m == n % r
<1>1. n \in Nat
  OBVIOUS
<1>2. n = r * q + m /\ q \in Nat /\ m \in 0 .. r - 1
  BY <1>1, DivMod
<1> HIDE DEF n, q, m
<1>3. r * q + m = r * a + b
  BY <1>2 DEF n
<1>4. \A x, y \in Nat : x < y => r * x + r <= r * y
  <2> TAKE x, y \in Nat
  <2> HAVE x < y
  <2>1. y - x - 1 \in Nat /\ y = x + 1 + (y - x - 1)
    OBVIOUS
  <2> DEFINE z == y - x - 1
  <2> HIDE DEF z
  <2>2. z \in Nat /\ y = x + 1 + z
    BY <2>1 DEF z
  <2>3. r * y = r * x + r + r * z
    BY <2>2
  <2>4. r * z \in Nat /\ r * x \in Nat
    BY <2>2
  <2> QED BY <2>3, <2>4
<1>5. r * q \in Nat /\ r * a \in Nat
  BY <1>2
<1>6. ~(q < a) /\ ~(a < q)
  BY <1>2, <1>3, <1>4, <1>5
<1>7. q = a
  BY <1>2, <1>6
<1>8. m = b
  BY <1>2, <1>3, <1>5, <1>7
<1> QED BY <1>7, <1>8 DEF q, m, n

-----------------------------------------------------------------------------
(***************************************************************************)
(* Cells and their pixels.                                                 *)
(***************************************************************************)

\* The sizes of the screen and of a character.
LEMMA Sizes ==
  /\ Width \in Nat /\ Height \in Nat /\ Pitch \in Nat /\ CharWidth \in Nat /\ CharHeight \in Nat
  /\ Width > 0 /\ Height > 0 /\ Pitch > 0 /\ CharWidth > 0 /\ CharHeight > 0
  /\ Width <= Pitch /\ MaxDrms \in Nat /\ MaxDrms > 0
BY DrmAssumption

\* The sizes of the terminal.
LEMMA TerminalSizes ==
  /\ VtWidth \in Nat /\ VtHeight \in Nat /\ Cells \in Nat
  /\ VtWidth > 0 /\ VtHeight > 0 /\ Cells > 0
  /\ CharWidth * VtWidth <= Width /\ CharHeight * VtHeight <= Height
<1>1. /\ Width = CharWidth * VtWidth + (Width % CharWidth)
      /\ VtWidth \in Nat /\ Width % CharWidth \in 0 .. CharWidth - 1
  BY Sizes, DivMod DEF VtWidth
<1>2. /\ Height = CharHeight * VtHeight + (Height % CharHeight)
      /\ VtHeight \in Nat /\ Height % CharHeight \in 0 .. CharHeight - 1
  BY Sizes, DivMod DEF VtHeight
<1>3. VtWidth > 0 /\ VtHeight > 0
  BY <1>2, ScrollAssumption
<1> HIDE DEF VtWidth, VtHeight
<1>4. Cells \in Nat /\ Cells > 0
  BY <1>1, <1>2, <1>3 DEF Cells
<1>5. CharWidth * VtWidth \in Nat /\ CharHeight * VtHeight \in Nat
  BY <1>1, <1>2, Sizes
<1> QED BY <1>1, <1>2, <1>3, <1>4, <1>5, Sizes

\* The column and the row of a cell.
LEMMA CellPlace ==
  ASSUME NEW i \in 0 .. Cells - 1
  PROVE  /\ i % VtWidth \in 0 .. VtWidth - 1
         /\ i \div VtWidth \in 0 .. VtHeight - 1
         /\ i = VtWidth * (i \div VtWidth) + (i % VtWidth)
<1> DEFINE w == VtWidth
           h == VtHeight
<1>1. i \in Nat /\ i < w * h /\ w \in Nat /\ h \in Nat /\ w > 0
  BY TerminalSizes DEF Cells
<1> HIDE DEF w, h
<1>2. i = w * (i \div w) + (i % w) /\ i \div w \in Nat /\ i % w \in 0 .. w - 1
  BY <1>1, DivMod
<1>3. i \div w < h
  BY <1>1, DivBound
<1>4. i \div w \in 0 .. h - 1
  BY <1>1, <1>2, <1>3
<1> QED BY <1>2, <1>4 DEF w, h

\* The pixels of the screen proper.
Screen == (0 .. Width - 1) \X (0 .. Height - 1)

\* A cell lies on the screen, and a pixel says which cell it belongs to.
LEMMA CellPixels ==
  ASSUME NEW i \in 0 .. Cells - 1, NEW p \in Cell(CellAt(i))
  PROVE  p \in Screen /\ CellOf(p) = i
<1> DEFINE c == i % VtWidth
           r == i \div VtWidth
<1>1. /\ c \in 0 .. VtWidth - 1 /\ r \in 0 .. VtHeight - 1
      /\ i = VtWidth * r + c
  <2>1. /\ i % VtWidth \in 0 .. VtWidth - 1
        /\ i \div VtWidth \in 0 .. VtHeight - 1
        /\ i = VtWidth * (i \div VtWidth) + (i % VtWidth)
    BY CellPlace
  <2> QED BY <2>1
<1>2. /\ p = <<p[1], p[2]>>
      /\ p[1] \in CharWidth * c .. CharWidth * c + CharWidth - 1
      /\ p[2] \in CharHeight * r .. CharHeight * r + CharHeight - 1
  BY DEF Cell, DrmFillRelRect, CellAt
<1> HIDE DEF c, r
<1> DEFINE x == p[1] - CharWidth * c
           y == p[2] - CharHeight * r
<1>3. CharWidth * c \in Nat /\ CharHeight * r \in Nat
  BY <1>1, Sizes, TerminalSizes
<1>4. x \in 0 .. CharWidth - 1 /\ y \in 0 .. CharHeight - 1
  BY <1>2, <1>3, Sizes
<1>5. p[1] = CharWidth * c + x /\ p[2] = CharHeight * r + y
  BY <1>2, <1>3
<1> HIDE DEF x, y
<1>6. p[1] \div CharWidth = c
  BY <1>1, <1>4, <1>5, Sizes, TerminalSizes, DigitsApart
<1>7. p[2] \div CharHeight = r
  BY <1>1, <1>4, <1>5, Sizes, TerminalSizes, DigitsApart
<1>8. CellOf(p) = i
  BY <1>1, <1>6, <1>7 DEF CellOf
<1>9. p[1] < Width
  <2>1. PICK z \in Nat : VtWidth = c + 1 + z
    <3>1. VtWidth - c - 1 \in Nat /\ VtWidth = c + 1 + (VtWidth - c - 1)
      BY <1>1, TerminalSizes
    <3> QED BY <3>1
  <2>2. CharWidth * VtWidth = CharWidth * c + CharWidth + CharWidth * z /\ CharWidth * z \in Nat
    BY <1>1, <2>1, Sizes
  <2> QED BY <1>3, <1>4, <1>5, <2>2, Sizes, TerminalSizes
<1>10. p[2] < Height
  <2>1. PICK z \in Nat : VtHeight = r + 1 + z
    <3>1. VtHeight - r - 1 \in Nat /\ VtHeight = r + 1 + (VtHeight - r - 1)
      BY <1>1, TerminalSizes
    <3> QED BY <3>1
  <2>2. CharHeight * VtHeight = CharHeight * r + CharHeight + CharHeight * z /\ CharHeight * z \in Nat
    BY <1>1, <2>1, Sizes
  <2> QED BY <1>3, <1>4, <1>5, <2>2, Sizes, TerminalSizes
<1>11. p \in Screen
  BY <1>2, <1>3, <1>4, <1>5, <1>9, <1>10, Sizes DEF Screen
<1> QED BY <1>8, <1>11

\* No two pixels of the screen have the same offset.
LEMMA OffsetsApart ==
  ASSUME NEW p \in Screen
  PROVE  /\ Offset(p) \in Offsets
         /\ \A q \in Screen : Offset(q) = Offset(p) => q = p
<1>1. \A q \in Screen : /\ q = <<q[1], q[2]>> /\ q[1] \in 0 .. Pitch - 1
                        /\ q[2] \in Nat /\ q[2] < Height
  BY Sizes DEF Screen
<1>2. \A q \in Screen : Offset(q) \div Pitch = q[2] /\ Offset(q) % Pitch = q[1]
  BY <1>1, Sizes, DigitsApart DEF Offset
<1>3. \A q \in Screen : Offset(q) = Offset(p) => q = p
  BY <1>1, <1>2
<1>4. PICK z \in Nat : Height = p[2] + 1 + z
  <2>1. Height - p[2] - 1 \in Nat /\ Height = p[2] + 1 + (Height - p[2] - 1)
    BY <1>1, Sizes
  <2> QED BY <2>1
<1>5. Pitch * Height = Pitch * p[2] + Pitch + Pitch * z /\ Pitch * z \in Nat /\ Pitch * p[2] \in Nat
  BY <1>1, <1>4, Sizes
<1>6. Offset(p) \in Offsets
  BY <1>1, <1>5, Sizes DEF Offset, Offsets
<1> QED BY <1>3, <1>6

-----------------------------------------------------------------------------
(***************************************************************************)
(* Painting.                                                               *)
(***************************************************************************)
CellIds == 0 .. Cells - 1

\* A buffer of pixels, and the display with its buffers, none of which was
\* written outside.
Buffer(b) == b = [o \in Offsets |-> b[o]]

Display(d) ==
  /\ d = [active |-> d.active, screen |-> d.screen, back |-> d.back, outside |-> d.outside]
  /\ d.active \in Drms /\ Buffer(d.screen)
  /\ d.back = [n \in Drms |-> d.back[n]] /\ (\A n \in Drms : Buffer(d.back[n]))
  /\ d.outside = {}

\* e is d with the shade on the screen, or with the screen as it was.
Painted(d, e, shade) ==
  /\ Display(e) /\ e.active = d.active
  /\ d.active # 0 => e.screen = d.screen
  /\ d.active = 0 =>
       /\ \A p \in DOMAIN shade : e.screen[Offset(p)] = shade[p]
       /\ \A o \in Offsets : (\A p \in DOMAIN shade : Offset(p) # o) => e.screen[o] = d.screen[o]

\* What Paint does with a shade that lies on the screen.
LEMMA PaintIs ==
  ASSUME NEW d, Display(d), NEW shade, DOMAIN shade \subseteq Screen
  PROVE  Painted(d, Paint(d, 0, shade), shade)
<1> DEFINE plotted == Plotted(DOMAIN shade)
           hit == {Offset(p) : p \in plotted}
           Over(buffer) == [o \in Offsets |->
                              IF o \in hit THEN shade[CHOOSE p \in plotted : Offset(p) = o]
                                           ELSE buffer[o]]
           e == Paint(d, 0, shade)
<1>1. plotted = DOMAIN shade
  BY Sizes DEF Plotted, Screen
<1>2. hit \subseteq Offsets
  BY <1>1, OffsetsApart
<1>3. \A p \in DOMAIN shade : /\ Offset(p) \in hit /\ Offset(p) \in Offsets
                              /\ (CHOOSE q \in plotted : Offset(q) = Offset(p)) = p
  BY <1>1, OffsetsApart
<1>4. 0 \in Drms
  BY Sizes DEF Drms
<1> DEFINE f == [d EXCEPT !.outside = @ \cup (hit \ Offsets)]
<1>5. d.outside \cup (hit \ Offsets) = {}
  BY <1>2 DEF Display
<1>6. f = [active |-> d.active, screen |-> d.screen, back |-> d.back, outside |-> {}]
  <2> HIDE DEF hit
  <2>1. d = [active |-> d.active, screen |-> d.screen, back |-> d.back, outside |-> d.outside]
    BY DEF Display
  <2> QED BY <1>5, <2>1
<1>7. e = IF d.active = 0 THEN [f EXCEPT !.screen = Over(@)] ELSE [f EXCEPT !.back[0] = Over(@)]
  BY DEF Paint
<1> HIDE DEF e, f
<1>8. CASE d.active = 0
  <2>1. e = [active |-> 0, screen |-> Over(d.screen), back |-> d.back, outside |-> {}]
    <3> HIDE DEF Over
    <3> QED BY <1>6, <1>7, <1>8
  <2>2. /\ \A p \in DOMAIN shade : Over(d.screen)[Offset(p)] = shade[p]
        /\ \A o \in Offsets : (\A p \in DOMAIN shade : Offset(p) # o) => Over(d.screen)[o] = d.screen[o]
    BY <1>1, <1>3
  <2>3. Buffer(Over(d.screen))
    BY DEF Buffer
  <2> HIDE DEF Over
  <2>4. /\ e.active = 0 /\ e.screen = Over(d.screen) /\ e.back = d.back /\ e.outside = {}
        /\ e = [active |-> e.active, screen |-> e.screen, back |-> e.back, outside |-> e.outside]
    BY <2>1
  <2>5. Display(e)
    BY <1>4, <2>3, <2>4 DEF Display
  <2> QED BY <1>8, <2>2, <2>4, <2>5 DEF Painted, e
<1>9. CASE d.active # 0
  <2>1. e = [active |-> d.active, screen |-> d.screen,
             back |-> [d.back EXCEPT ![0] = Over(@)], outside |-> {}]
    <3> HIDE DEF Over
    <3> QED BY <1>6, <1>7, <1>9
  <2>2. Buffer(Over(d.back[0]))
    BY DEF Buffer
  <2> HIDE DEF Over
  <2>3. \A n \in Drms : Buffer([d.back EXCEPT ![0] = Over(@)][n])
    BY <1>4, <2>2 DEF Display
  <2>4. /\ e.active = d.active /\ e.screen = d.screen /\ e.back = [d.back EXCEPT ![0] = Over(@)]
        /\ e = [active |-> e.active, screen |-> e.screen, back |-> e.back, outside |-> e.outside]
        /\ e.outside = {}
    BY <2>1
  <2>5. e.back = [n \in Drms |-> e.back[n]]
    BY <2>4 DEF Display
  <2>6. Display(e)
    BY <2>3, <2>4, <2>5 DEF Display
  <2> QED BY <1>9, <2>4, <2>6 DEF Painted, e
<1> QED BY <1>8, <1>9 DEF e

\* drm_clear leaves the screen as it is.
LEMMA ClearIs ==
  ASSUME NEW d, Display(d)
  PROVE  LET e == DrmClear(d, 0)
         IN  Display(e) /\ e.active = d.active /\ e.screen = d.screen
<1> DEFINE b == Colored(d.back[0], 0 .. Width * Height - 1, Black)
           e == DrmClear(d, 0)
<1>1. 0 \in Drms
  BY Sizes DEF Drms
<1>2. Buffer(b)
  BY DEF Colored, Buffer
<1>3. e = [active |-> d.active, screen |-> d.screen, back |-> [d.back EXCEPT ![0] = b], outside |-> {}]
  <2>1. d = [active |-> d.active, screen |-> d.screen, back |-> d.back, outside |-> d.outside]
        /\ d.outside = {}
    BY DEF Display
  <2>2. e = [d EXCEPT !.back[0] = b]
    BY DEF DrmClear
  <2> HIDE DEF b, e
  <2> QED BY <2>1, <2>2
<1> HIDE DEF b, e
<1>4. \A n \in Drms : Buffer([d.back EXCEPT ![0] = b][n])
  BY <1>1, <1>2 DEF Display
<1>5. Display(e) /\ e.active = d.active /\ e.screen = d.screen
  BY <1>3, <1>4 DEF Display
<1> QED BY <1>5 DEF e

-----------------------------------------------------------------------------
(***************************************************************************)
(* Drawing cells.                                                          *)
(***************************************************************************)

\* The screen has the pixels of the cell.
Drawn(t, d, i) == \A p \in Cell(CellAt(i)) : d.screen[Offset(p)] = CellShade(t, i)[p]

\* The shade of a cell covers the cell.
LEMMA ShadeOfCell ==
  ASSUME NEW t, NEW i \in CellIds
  PROVE  DOMAIN CellShade(t, i) = Cell(CellAt(i)) /\ DOMAIN CellShade(t, i) \subseteq Screen
<1>1. DOMAIN CellShade(t, i) = Cell(CellAt(i))
  BY DEF CellShade, DrmPlotCharSolid, InColor
<1>2. Cell(CellAt(i)) \subseteq Screen
  BY CellPixels DEF CellIds
<1> QED BY <1>1, <1>2

\* e is d with the cells of the set I drawn, and with the others as they were.
DrewCells(t, d, e, I) ==
  /\ Display(e) /\ e.active = d.active
  /\ d.active # 0 => e.screen = d.screen
  /\ d.active = 0 => \A i \in CellIds : i \in I \/ Drawn(t, d, i) => Drawn(t, e, i)

\* Painting the shades of some cells draws those cells.
LEMMA PaintCells ==
  ASSUME NEW t, NEW d, Display(d), NEW I \in SUBSET CellIds, NEW shade,
         DOMAIN shade = UNION {Cell(CellAt(i)) : i \in I},
         \A i \in I : \A p \in Cell(CellAt(i)) : shade[p] = CellShade(t, i)[p]
  PROVE  DrewCells(t, d, Paint(d, 0, shade), I)
<1> DEFINE e == Paint(d, 0, shade)
<1>1. \A i \in CellIds : Cell(CellAt(i)) \subseteq Screen /\ \A p \in Cell(CellAt(i)) : CellOf(p) = i
  BY CellPixels DEF CellIds
<1>2. DOMAIN shade \subseteq Screen
  BY <1>1
<1>3. Painted(d, e, shade)
  BY <1>2, PaintIs
<1> HIDE DEF e
<1>4. ASSUME d.active = 0, NEW i \in I
      PROVE  Drawn(t, e, i)
  BY <1>3, <1>4 DEF Painted, Drawn
<1>5. ASSUME d.active = 0, NEW i \in CellIds, i \notin I, Drawn(t, d, i)
      PROVE  Drawn(t, e, i)
  <2> SUFFICES ASSUME NEW p \in Cell(CellAt(i))
               PROVE  e.screen[Offset(p)] = CellShade(t, i)[p]
    BY DEF Drawn
  <2>1. p \in Screen /\ Offset(p) \in Offsets /\ CellOf(p) = i
    BY <1>1, OffsetsApart
  <2>2. ASSUME NEW q \in DOMAIN shade
        PROVE  Offset(q) # Offset(p)
    <3>1. PICK j \in I : q \in Cell(CellAt(j))
      OBVIOUS
    <3>2. CellOf(q) = j /\ q \in Screen
      BY <1>1, <3>1
    <3>3. q # p
      BY <1>5, <2>1, <3>2
    <3> QED BY <2>1, <3>2, <3>3, OffsetsApart
  <2>3. e.screen[Offset(p)] = d.screen[Offset(p)]
    BY <1>3, <1>5, <2>1, <2>2 DEF Painted
  <2> QED BY <1>5, <2>3 DEF Drawn
<1>6. Display(e) /\ e.active = d.active /\ (d.active # 0 => e.screen = d.screen)
  BY <1>3 DEF Painted
<1>7. d.active = 0 => \A i \in CellIds : i \in I \/ Drawn(t, d, i) => Drawn(t, e, i)
  BY <1>4, <1>5
<1> QED BY <1>6, <1>7 DEF DrewCells, e

\* A single cell.
LEMMA DrawOne ==
  ASSUME NEW t, NEW d, Display(d), NEW i \in CellIds
  PROVE  DrewCells(t, d, VtDrawChar(t, d, i), {i})
<1> DEFINE shade == CellShade(t, i)
           I == {i}
<1>1. DOMAIN shade = UNION {Cell(CellAt(j)) : j \in I}
  BY ShadeOfCell
<1>2. \A j \in I : \A p \in Cell(CellAt(j)) : shade[p] = CellShade(t, j)[p]
  OBVIOUS
<1>3. I \in SUBSET CellIds /\ VtDrawChar(t, d, i) = Paint(d, 0, shade)
  BY DEF VtDrawChar
<1> HIDE DEF shade, I
<1>4. DrewCells(t, d, Paint(d, 0, shade), I)
  BY <1>1, <1>2, <1>3, PaintCells
<1> QED BY <1>3, <1>4 DEF I

\* A range of cells.
LEMMA DrawRange ==
  ASSUME NEW t, NEW d, Display(d), NEW m, NEW n, m .. n \subseteq CellIds
  PROVE  DrewCells(t, d, DrawCells(t, d, m, n), m .. n)
<1> DEFINE I == m .. n
           shades == [i \in I |-> CellShade(t, i)]
           shade == [p \in UNION {DOMAIN shades[i] : i \in I} |-> shades[CellOf(p)][p]]
<1>1. \A i \in I : shades[i] = CellShade(t, i) /\ DOMAIN shades[i] = Cell(CellAt(i))
  BY ShadeOfCell
<1>2. DOMAIN shade = UNION {Cell(CellAt(i)) : i \in I}
  BY <1>1
<1>3. ASSUME NEW i \in I, NEW p \in Cell(CellAt(i))
      PROVE  shade[p] = CellShade(t, i)[p]
  <2>1. CellOf(p) = i
    BY CellPixels DEF CellIds
  <2>2. p \in UNION {DOMAIN shades[j] : j \in I}
    BY <1>1
  <2> QED BY <1>1, <2>1, <2>2
<1>4. I \in SUBSET CellIds /\ DrawCells(t, d, m, n) = Paint(d, 0, shade)
  BY DEF DrawCells
<1> HIDE DEF shade, I, shades
<1>5. DrewCells(t, d, Paint(d, 0, shade), I)
  BY <1>2, <1>3, <1>4, PaintCells
<1> QED BY <1>4, <1>5 DEF I

\* Drawing a drawn cell changes nothing.
LEMMA DrawnShown ==
  ASSUME NEW t, NEW d, Display(d), d.active = 0, NEW i \in CellIds, Drawn(t, d, i)
  PROVE  VtDrawChar(t, d, i).screen = d.screen
<1> DEFINE shade == CellShade(t, i)
           e == VtDrawChar(t, d, i)
<1>1. DOMAIN shade \subseteq Screen /\ DOMAIN shade = Cell(CellAt(i)) /\ e = Paint(d, 0, shade)
  BY ShadeOfCell DEF VtDrawChar
<1>2. \A p \in DOMAIN shade : d.screen[Offset(p)] = shade[p]
  BY <1>1 DEF Drawn
<1> HIDE DEF shade, e
<1>3. Painted(d, e, shade)
  BY <1>1, PaintIs
<1>4. \A o \in Offsets : e.screen[o] = d.screen[o]
  BY <1>2, <1>3 DEF Painted
<1>5. Buffer(e.screen) /\ Buffer(d.screen)
  BY <1>3 DEF Painted, Display
<1>6. e.screen = d.screen
  BY <1>4, <1>5 DEF Buffer
<1> QED BY <1>6 DEF e

-----------------------------------------------------------------------------
(***************************************************************************)
(* The terminal's operators, on a pair of the terminal and the display.    *)
(***************************************************************************)
Rows == 0 .. VtHeight - 1
Starts == 0 .. Cells
Colors == 0 .. 7

Rendition(gr) ==
  /\ gr = [bold |-> gr.bold, dim |-> gr.dim, reverse |-> gr.reverse, fg |-> gr.fg, bg |-> gr.bg]
  /\ gr.fg \in Colors /\ gr.bg \in Colors

Fields == {"cells", "x", "y", "start", "end", "dirty", "full", "gr", "termcode", "outside", "font"}

Record(t) == t = [f \in Fields |-> t[f]]

Terminal(t) ==
  /\ Record(t)
  /\ t.cells = [i \in CellIds |-> t.cells[i]]
  /\ t.x \in Int /\ t.x < VtWidth /\ t.y \in Rows
  /\ t.start \in Starts /\ t.end \in Int
  /\ t.dirty \in BOOLEAN /\ t.full \in BOOLEAN /\ Rendition(t.gr)

Pair(s) == s = [t |-> s.t, d |-> s.d] /\ Terminal(s.t) /\ Display(s.d)

\* The cell is on the screen, or it will be once the terminal is flushed.
Covered(t, d, i) == \/ Drawn(t, d, i)
                    \/ t.full
                    \/ (t.dirty /\ t.start <= i /\ i <= LastDirty(t))

Covers(s) == s.d.active = 0 => \A i \in CellIds : Covered(s.t, s.d, i)

Leaves(s) == s.d.active = 0 => \A i \in CellIds : Drawn(s.t, s.d, i)

\* r is a pair after s, without a write outside of the cells or a switch, and
\* with what is not drawn in the range if it was.
Follows(s, r) ==
  /\ Pair(r)
  /\ r.t.outside = s.t.outside /\ r.d.active = s.d.active
  /\ Covers(s) => Covers(r)

\* One step after another.
LEMMA FollowsOn ==
  ASSUME NEW s, NEW q, NEW r, Follows(s, q), Follows(q, r)
  PROVE  Follows(s, r)
BY DEF Follows

\* The end of the range of cells to draw.
LEMMA LastDirtyCell ==
  ASSUME NEW t, Terminal(t)
  PROVE  LastDirty(t) \in CellIds /\ t.start .. LastDirty(t) \subseteq CellIds
BY TerminalSizes DEF LastDirty, Below, Terminal, CellIds, Starts

\* What is drawn depends on the cells, on the font and on the screen only.
LEMMA SameDrawn ==
  ASSUME NEW t, NEW u, NEW d, NEW e, NEW i, t.cells[i] = u.cells[i], t.font = u.font,
         d.screen = e.screen
  PROVE  Drawn(t, d, i) <=> Drawn(u, e, i)
BY DEF Drawn, CellShade

\* vt_flush draws all that is not drawn yet.
LEMMA FlushFollows ==
  ASSUME NEW s, Pair(s)
  PROVE  Follows(s, VtFlush(s)) /\ (Covers(s) => Leaves(VtFlush(s)))
<1> DEFINE t == s.t
           d == s.d
           last == LastDirty(t)
           u == [t EXCEPT !.full = FALSE, !.dirty = FALSE, !.start = Cells, !.end = 1]
           Flushed(e) == [t |-> u, d |-> e]
           Drew(e) == /\ Display(e) /\ e.active = d.active
                      /\ Covers(s) => Leaves(Flushed(e))
<1>1. Terminal(t) /\ Display(d)
  BY DEF Pair
<1>2. last \in CellIds /\ t.start .. last \subseteq CellIds
  BY <1>1, LastDirtyCell
<1>3. /\ Terminal(u) /\ u.cells = t.cells /\ u.font = t.font /\ u.outside = t.outside
      /\ u.dirty = FALSE /\ u.full = FALSE
  <2> HIDE DEF t
  <2>1. Cells \in Starts /\ 1 \in Int
    BY TerminalSizes DEF Starts
  <2>2. /\ Record(u) /\ u.cells = t.cells /\ u.x = t.x /\ u.y = t.y /\ u.start = Cells
        /\ u.end = 1 /\ u.dirty = FALSE /\ u.full = FALSE /\ u.gr = t.gr
        /\ u.outside = t.outside /\ u.font = t.font
    <3>1. Record(t)
      BY <1>1 DEF Terminal
    <3> QED BY <3>1, Zenon DEF Record, Fields
  <2> HIDE DEF u
  <2> QED BY <1>1, <2>1, <2>2 DEF Terminal
<1> HIDE DEF u
<1>4. \A e : Drew(e) => Follows(s, Flushed(e)) /\ (Covers(s) => Leaves(Flushed(e)))
  <2> TAKE e
  <2> HAVE Drew(e)
  <2>1. Pair(Flushed(e))
    BY <1>3 DEF Pair
  <2>2. Leaves(Flushed(e)) => Covers(Flushed(e))
    BY DEF Leaves, Covers, Covered
  <2> QED BY <1>3, <2>1, <2>2 DEF Follows
<1>5. CASE t.full
  <2> DEFINE c == DrmClear(d, 0)
             e == DrawCells(t, c, 0, Cells - 1)
  <2>1. Display(c) /\ c.active = d.active
    BY <1>1, ClearIs
  <2> HIDE DEF c
  <2>2. 0 .. Cells - 1 \subseteq CellIds
    BY DEF CellIds
  <2>3. DrewCells(t, c, e, 0 .. Cells - 1)
    BY <2>1, <2>2, DrawRange
  <2>4. VtFlush(s) = Flushed(e)
    <3>1. ResetRange([t EXCEPT !.full = FALSE, !.dirty = FALSE]) = u
      <4> HIDE DEF t
      <4> QED BY <1>1 DEF ResetRange, Terminal, u
    <3> QED BY <1>5, <3>1 DEF VtFlush, c
  <2> HIDE DEF e
  <2>5. e.active = 0 => \A i \in CellIds : Drawn(t, e, i)
    BY <2>1, <2>3 DEF DrewCells, CellIds
  <2>6. e.active = 0 => \A i \in CellIds : Drawn(u, e, i)
    BY <1>3, <2>5, SameDrawn
  <2>7. Drew(e)
    BY <2>1, <2>3, <2>6 DEF DrewCells, Leaves
  <2> HIDE DEF Drew, Flushed
  <2> QED BY <1>4, <2>4, <2>7
<1>6. ASSUME ~t.full
      PROVE  ResetRange([t EXCEPT !.dirty = FALSE]) = u
  <2> HIDE DEF t
  <2> QED BY <1>1, <1>6 DEF ResetRange, Terminal, u
<1>7. CASE ~t.full /\ t.dirty /\ ~Below(last, t.start)
  <2> DEFINE e == DrawCells(t, d, t.start, last)
  <2>1. DrewCells(t, d, e, t.start .. last)
    BY <1>1, <1>2, DrawRange
  <2>2. VtFlush(s) = Flushed(e)
    BY <1>6, <1>7 DEF VtFlush
  <2> HIDE DEF e
  <2>3. Covers(s) /\ e.active = 0 => \A i \in CellIds : Drawn(t, e, i)
    <3> SUFFICES ASSUME Covers(s), e.active = 0, NEW i \in CellIds
                 PROVE  Drawn(t, e, i)
      OBVIOUS
    <3>1. d.active = 0 /\ (i \in t.start .. last \/ Drawn(t, d, i) => Drawn(t, e, i))
      BY <2>1 DEF DrewCells
    <3>2. Drawn(t, d, i) \/ (t.start <= i /\ i <= last)
      BY <1>7, <3>1 DEF Covers, Covered
    <3>3. i \in Int /\ t.start \in Int
      BY <1>1, TerminalSizes DEF CellIds, Terminal, Starts
    <3> QED BY <1>2, <3>1, <3>2, <3>3
  <2>4. Covers(s) /\ e.active = 0 => \A i \in CellIds : Drawn(u, e, i)
    BY <1>3, <2>3, SameDrawn
  <2>5. Drew(e)
    BY <2>1, <2>4 DEF DrewCells, Leaves
  <2> HIDE DEF Drew, Flushed
  <2> QED BY <1>4, <2>2, <2>5
<1>8. CASE ~t.full /\ ~(t.dirty /\ ~Below(last, t.start))
  <2>1. VtFlush(s) = Flushed(d)
    <3>1. VtFlush(s) = [s EXCEPT !.t = ResetRange([t EXCEPT !.dirty = FALSE])]
      BY <1>8 DEF VtFlush
    <3>2. s = [t |-> t, d |-> d]
      BY DEF Pair
    <3> HIDE DEF t, d
    <3> QED BY <1>6, <1>8, <3>1, <3>2
  <2>2. Covers(s) /\ d.active = 0 => \A i \in CellIds : Drawn(t, d, i)
    <3> SUFFICES ASSUME Covers(s), d.active = 0, NEW i \in CellIds
                 PROVE  Drawn(t, d, i)
      OBVIOUS
    <3>1. t.dirty => last < t.start
      BY <1>1, <1>2, <1>8, TerminalSizes DEF Below, CellIds, Terminal, Starts
    <3>2. Drawn(t, d, i) \/ (t.dirty /\ t.start <= i /\ i <= last)
      BY <1>8 DEF Covers, Covered
    <3>3. i \in Int /\ t.start \in Int /\ last \in Int
      BY <1>1, <1>2, TerminalSizes DEF CellIds, Terminal, Starts
    <3> QED BY <3>1, <3>2, <3>3
  <2>3. Covers(s) /\ d.active = 0 => \A i \in CellIds : Drawn(u, d, i)
    BY <1>3, <2>2, SameDrawn
  <2>4. Drew(d)
    BY <1>1, <2>3 DEF Leaves
  <2> HIDE DEF Drew, Flushed
  <2> QED BY <1>4, <2>1, <2>4
<1> QED BY <1>5, <1>7, <1>8

-----------------------------------------------------------------------------
(***************************************************************************)
(* Moving the cursor.                                                      *)
(***************************************************************************)

\* u replaces t, has its cells, and leaves none out that t would draw.
Widens(t, u) ==
  /\ Terminal(u) /\ u.cells = t.cells /\ u.font = t.font /\ u.outside = t.outside
  /\ u.start <= t.start /\ LastDirty(t) <= LastDirty(u)
  /\ t.full => u.full
  /\ t.dirty => u.dirty

\* A terminal in the place of another.
LEMMA Replaced ==
  ASSUME NEW s, Pair(s), NEW u, Terminal(u)
  PROVE  LET r == [s EXCEPT !.t = u]
         IN  r = [t |-> u, d |-> s.d] /\ Pair(r) /\ r.t = u /\ r.d = s.d
<1> DEFINE r == [s EXCEPT !.t = u]
<1>1. r = [t |-> u, d |-> s.d]
  BY DEF Pair
<1> HIDE DEF r
<1>2. Pair(r) /\ r.t = u /\ r.d = s.d
  BY <1>1 DEF Pair
<1> QED BY <1>1, <1>2 DEF r

\* What the other terminal covers, this one covers.
LEMMA WidensCovered ==
  ASSUME NEW t, Terminal(t), NEW u, Widens(t, u), NEW d, NEW i \in CellIds, Covered(t, d, i)
  PROVE  Covered(u, d, i)
<1>1. Drawn(t, d, i) => Drawn(u, d, i)
  BY SameDrawn DEF Widens
<1>2. \A v : Terminal(v) => v.start \in Int /\ LastDirty(v) \in Int
  <2> TAKE v
  <2> HAVE Terminal(v)
  <2>1. LastDirty(v) \in CellIds /\ v.start \in Starts
    BY LastDirtyCell DEF Terminal
  <2> QED BY <2>1, TerminalSizes DEF CellIds, Starts
<1>3. /\ t.start \in Int /\ u.start \in Int /\ i \in Int
      /\ LastDirty(t) \in Int /\ LastDirty(u) \in Int
  BY <1>2 DEF Widens, CellIds
<1>4. t.dirty /\ t.start <= i /\ i <= LastDirty(t) =>
        u.dirty /\ u.start <= i /\ i <= LastDirty(u)
  BY <1>3 DEF Widens
<1>5. t.full => u.full
  BY DEF Widens
<1> QED BY <1>1, <1>4, <1>5 DEF Covered

\* A terminal that draws as much as the other.
LEMMA WidensFollows ==
  ASSUME NEW s, Pair(s), NEW u, Widens(s.t, u)
  PROVE  Follows(s, [s EXCEPT !.t = u])
<1> DEFINE r == [s EXCEPT !.t = u]
<1>1. Pair(r) /\ r.t = u /\ r.d = s.d
  BY Replaced DEF Widens
<1> HIDE DEF r
<1>2. ASSUME Covers(s), r.d.active = 0, NEW i \in CellIds
      PROVE  Covered(r.t, r.d, i)
  <2>1. Covered(s.t, s.d, i)
    BY <1>1, <1>2 DEF Covers
  <2>2. Terminal(s.t)
    BY DEF Pair
  <2> QED BY <1>1, <2>1, <2>2, WidensCovered
<1>3. Covers(s) => Covers(r)
  BY <1>2 DEF Covers
<1>4. Follows(s, r)
  BY <1>1, <1>3 DEF Follows, Widens
<1> QED BY <1>4 DEF r

\* A terminal that is drawn completely when it is flushed.
LEMMA FullFollows ==
  ASSUME NEW s, Pair(s), NEW u, Terminal(u), u.full, u.outside = s.t.outside
  PROVE  Follows(s, [s EXCEPT !.t = u])
<1> DEFINE r == [s EXCEPT !.t = u]
<1>1. Pair(r) /\ r.t = u /\ r.d = s.d
  BY Replaced
<1> HIDE DEF r
<1>2. Follows(s, r)
  BY <1>1 DEF Follows, Covers, Covered
<1> QED BY <1>2 DEF r

\* vt_advance_y goes to the next row, or scrolls, and flushes.
LEMMA AdvanceYFollows ==
  ASSUME NEW s, Pair(s)
  PROVE  Follows(s, VtAdvanceY(s))
<1> DEFINE t == s.t
           y == t.y + 1
<1>1. Terminal(t) /\ Record(t)
  BY DEF Pair, Terminal
<1>2. CASE y >= VtHeight
  <2> DEFINE u == [t EXCEPT !.y = y - ScrollStep, !.cells = Scrolled(@), !.dirty = TRUE,
                            !.full = TRUE]
             q == [s EXCEPT !.t = u]
  <2>1. /\ Record(u) /\ u.cells = Scrolled(t.cells) /\ u.x = t.x /\ u.y = y - ScrollStep
        /\ u.start = t.start /\ u.end = t.end /\ u.dirty = TRUE /\ u.full = TRUE /\ u.gr = t.gr
        /\ u.outside = t.outside /\ u.font = t.font
    <3> HIDE DEF t, y
    <3> QED BY <1>1, Zenon DEF Record, Fields
  <2>2. VtAdvanceY(s) = VtFlush(q)
    BY <1>2 DEF VtAdvanceY
  <2> HIDE DEF u
  <2>3. y - ScrollStep \in Rows
    BY <1>1, <1>2, ScrollAssumption, TerminalSizes DEF Terminal, Rows
  <2>4. Scrolled(t.cells) = [i \in CellIds |-> Scrolled(t.cells)[i]]
    <3>1. DOMAIN t.cells = CellIds
      BY <1>1 DEF Terminal
    <3> QED BY <3>1 DEF Scrolled
  <2>5. Terminal(u)
    <3> HIDE DEF t, y
    <3> QED BY <1>1, <2>1, <2>3, <2>4 DEF Terminal
  <2>6. Follows(s, q)
    BY <2>1, <2>5, FullFollows
  <2> HIDE DEF q
  <2>7. Follows(q, VtFlush(q))
    BY <2>6, FlushFollows DEF Follows
  <2> QED BY <2>2, <2>6, <2>7, FollowsOn
<1>3. CASE ~(y >= VtHeight)
  <2> DEFINE u == [t EXCEPT !.y = y, !.dirty = TRUE]
             q == [s EXCEPT !.t = u]
  <2>1. /\ Record(u) /\ u.cells = t.cells /\ u.x = t.x /\ u.y = y
        /\ u.start = t.start /\ u.end = t.end /\ u.dirty = TRUE /\ u.full = t.full /\ u.gr = t.gr
        /\ u.outside = t.outside /\ u.font = t.font
    <3> HIDE DEF t, y
    <3> QED BY <1>1, Zenon DEF Record, Fields
  <2>2. VtAdvanceY(s) = VtFlush(q)
    BY <1>3 DEF VtAdvanceY
  <2> HIDE DEF u
  <2>3. y \in Rows
    BY <1>1, <1>3, TerminalSizes DEF Terminal, Rows
  <2>4. Terminal(u)
    <3> HIDE DEF t, y
    <3> QED BY <1>1, <2>1, <2>3 DEF Terminal
  <2>5. Widens(t, u)
    <3>1. LastDirty(u) = LastDirty(t)
      BY <2>1 DEF LastDirty
    <3>2. LastDirty(t) \in Int /\ t.start \in Int
      BY <1>1, LastDirtyCell, TerminalSizes DEF Terminal, CellIds, Starts
    <3> HIDE DEF t
    <3> QED BY <2>1, <2>4, <3>1, <3>2 DEF Widens
  <2>6. Follows(s, q)
    BY <2>5, WidensFollows
  <2> HIDE DEF q
  <2>7. Follows(q, VtFlush(q))
    BY <2>6, FlushFollows DEF Follows
  <2> QED BY <2>2, <2>6, <2>7, FollowsOn
<1> QED BY <1>2, <1>3

\* A cursor elsewhere in its row.
LEMMA ColumnFollows ==
  ASSUME NEW s, Pair(s), NEW x \in Int, x < VtWidth
  PROVE  Follows(s, [s EXCEPT !.t.x = x])
<1> DEFINE t == s.t
           u == [t EXCEPT !.x = x]
<1>1. Terminal(t) /\ Record(t)
  BY DEF Pair, Terminal
<1>2. /\ Record(u) /\ u.cells = t.cells /\ u.x = x /\ u.y = t.y
      /\ u.start = t.start /\ u.end = t.end /\ u.dirty = t.dirty /\ u.full = t.full /\ u.gr = t.gr
      /\ u.outside = t.outside /\ u.font = t.font
  <2> HIDE DEF t
  <2> QED BY <1>1, Zenon DEF Record, Fields
<1>3. [s EXCEPT !.t.x = x] = [s EXCEPT !.t = u]
  BY DEF Pair
<1> HIDE DEF u
<1>4. Terminal(u)
  <2> HIDE DEF t
  <2> QED BY <1>1, <1>2 DEF Terminal
<1>5. LastDirty(u) = LastDirty(t)
  BY <1>2 DEF LastDirty
<1>6. LastDirty(t) \in Int /\ t.start \in Int
  BY <1>1, LastDirtyCell, TerminalSizes DEF Terminal, CellIds, Starts
<1>7. Widens(t, u)
  <2> HIDE DEF t
  <2> QED BY <1>2, <1>4, <1>5, <1>6 DEF Widens
<1> QED BY <1>3, <1>7, WidensFollows

\* vt_advance_x goes to the next column, or to the next row.
LEMMA AdvanceXFollows ==
  ASSUME NEW s, Pair(s)
  PROVE  Follows(s, VtAdvanceX(s))
<1> DEFINE x == s.t.x + 1
<1>1. x \in Int
  BY DEF Pair, Terminal
<1>2. CASE Below(x, VtWidth)
  <2>1. x < VtWidth
    BY <1>1, <1>2, TerminalSizes DEF Below
  <2>2. VtAdvanceX(s) = [s EXCEPT !.t.x = x]
    BY <1>2 DEF VtAdvanceX, Pair
  <2> HIDE DEF x
  <2> QED BY <1>1, <2>1, <2>2, ColumnFollows
<1>3. CASE ~Below(x, VtWidth)
  <2> DEFINE q == [s EXCEPT !.t.x = 0]
  <2>1. VtAdvanceX(s) = VtAdvanceY(q)
    BY <1>3 DEF VtAdvanceX
  <2>2. Follows(s, q)
    BY ColumnFollows, TerminalSizes
  <2> HIDE DEF q
  <2>3. Follows(q, VtAdvanceY(q))
    BY <2>2, AdvanceYFollows DEF Follows
  <2> QED BY <2>1, <2>2, <2>3, FollowsOn
<1> QED BY <1>2, <1>3

-----------------------------------------------------------------------------
(***************************************************************************)
(* Printing a character.                                                   *)
(***************************************************************************)

\* The place of the cursor is never behind the last cell.
LEMMA AtBound ==
  ASSUME NEW t, Terminal(t)
  PROVE  At(t) \in Int /\ At(t) < Cells
<1> DEFINE w == VtWidth
           h == VtHeight
           y == t.y
           x == t.x
<1>1. w \in Nat /\ h \in Nat /\ w > 0 /\ Cells = w * h
  BY TerminalSizes DEF Cells
<1>2. x \in Int /\ x < w /\ y \in 0 .. h - 1
  BY DEF Terminal, Rows
<1> HIDE DEF w, h, y, x
<1>3. PICK z \in Nat : h = y + 1 + z
  <2>1. h - y - 1 \in Nat /\ h = y + 1 + (h - y - 1)
    BY <1>1, <1>2
  <2> QED BY <2>1
<1>4. w * h = y * w + w + w * z /\ w * z \in Nat /\ y * w \in Nat
  BY <1>1, <1>2, <1>3
<1>5. y * w + x \in Int /\ y * w + x < w * h
  BY <1>1, <1>2, <1>4
<1> QED BY <1>1, <1>5 DEF At, w, h, y, x

\* The range is widened to the cursor's cell.
LEMMA MarkWidens ==
  ASSUME NEW t, Terminal(t)
  PROVE  /\ Widens(t, Mark(t))
         /\ At(t) \in CellIds => /\ Mark(t).dirty /\ Mark(t).start <= At(t)
                                 /\ At(t) <= LastDirty(Mark(t))
<1> DEFINE a == At(t)
           u == Mark(t)
<1>1. a \in Int /\ a < Cells
  BY AtBound
<1>2. t.start \in 0 .. Cells /\ t.end \in Int /\ Cells \in Nat /\ Cells > 0
  BY TerminalSizes DEF Terminal, Starts
<1>3. /\ Record(u) /\ u.cells = t.cells /\ u.x = t.x /\ u.y = t.y /\ u.start = Lesser(a, t.start)
      /\ u.end = Greater(a, t.end) /\ u.dirty = TRUE /\ u.full = t.full /\ u.gr = t.gr
      /\ u.outside = t.outside /\ u.font = t.font
  <2> HIDE DEF a
  <2>1. u = [t EXCEPT !.dirty = TRUE, !.start = Lesser(a, @), !.end = Greater(a, @)]
    BY DEF Mark, a
  <2>2. Record(t)
    BY DEF Terminal
  <2> HIDE DEF u
  <2> QED BY <2>1, <2>2, Zenon DEF Record, Fields
<1> HIDE DEF a, u
<1>4. u.start \in 0 .. Cells /\ u.start <= t.start /\ u.end \in Int
  BY <1>1, <1>2, <1>3 DEF Lesser, Greater, Below
<1>5. Terminal(u)
  BY <1>3, <1>4 DEF Terminal, Starts
<1>6. LastDirty(t) <= LastDirty(u)
  BY <1>1, <1>2, <1>3 DEF LastDirty, Greater, Below
<1>7. a >= 0 => u.start <= a /\ a <= LastDirty(u)
  BY <1>1, <1>2, <1>3 DEF LastDirty, Lesser, Greater, Below
<1>8. Widens(t, u)
  BY <1>3, <1>4, <1>5, <1>6 DEF Widens
<1> QED BY <1>1, <1>3, <1>7, <1>8 DEF CellIds, a, u

\* r is a pair after a character was printed on s.
Printed(s, r) ==
  /\ Pair(r) /\ r.d.active = s.d.active
  /\ r.t.outside # s.t.outside => At(s.t) < 0
  /\ Covers(s) => Covers(r)

\* The character is written into its cell, and the cell is to be drawn.
LEMMA WriteFollows ==
  ASSUME NEW s, Pair(s), NEW c
  PROVE  Printed(s, [s EXCEPT !.t = Mark(WriteCell(s.t, c))])
<1> DEFINE t == s.t
           a == At(t)
           w == WriteCell(t, c)
           u == Mark(w)
           r == [s EXCEPT !.t = u]
<1>1. Terminal(t) /\ Record(t)
  BY DEF Pair, Terminal
<1>2. a \in Int /\ a < Cells
  BY <1>1, AtBound
<1>3. CASE a \in CellIds
  <2> DEFINE new == [unicode |-> c, fg |-> AnsiConvertFg(t.gr), bg |-> AnsiConvertBg(t.gr)]
             cells == [t.cells EXCEPT ![a] = new]
  <2>1. w = [t EXCEPT !.cells[a] = new]
    BY <1>3 DEF WriteCell, CellIds
  <2> HIDE DEF new, w, a
  <2>2. /\ Record(w) /\ w.cells = cells /\ w.x = t.x /\ w.y = t.y /\ w.start = t.start
        /\ w.end = t.end /\ w.dirty = t.dirty /\ w.full = t.full /\ w.gr = t.gr
        /\ w.outside = t.outside /\ w.font = t.font
    <3>1. w = [t EXCEPT !.cells = cells]
      BY <2>1
    <3> HIDE DEF t, cells
    <3> QED BY <1>1, <3>1, Zenon DEF Record, Fields
  <2>3. /\ cells = [i \in CellIds |-> cells[i]]
        /\ \A i \in CellIds : i # a => cells[i] = t.cells[i]
    <3>1. t.cells = [i \in CellIds |-> t.cells[i]]
      BY <1>1 DEF Terminal
    <3> QED BY <3>1
  <2> HIDE DEF cells
  <2>4. Terminal(w)
    <3> HIDE DEF t
    <3> QED BY <1>1, <2>2, <2>3 DEF Terminal
  <2>5. LastDirty(w) = LastDirty(t) /\ At(w) = a
    BY <2>2 DEF LastDirty, At, a
  <2>6. /\ Widens(w, u) /\ u.dirty /\ u.start <= a /\ a <= LastDirty(u)
    BY <1>3, <2>4, <2>5, MarkWidens
  <2>7. Terminal(u) /\ u.outside = t.outside
    BY <2>2, <2>6 DEF Widens
  <2> HIDE DEF u
  <2>8. ASSUME NEW d, NEW i \in CellIds, Covered(t, d, i)
        PROVE  Covered(u, d, i)
    <3>1. CASE i = a
      BY <2>6, <3>1 DEF Covered
    <3>2. CASE i # a
      <4>1. Drawn(t, d, i) => Drawn(w, d, i)
        BY <2>2, <2>3, <3>2, SameDrawn
      <4>2. Covered(w, d, i)
        <5> HIDE DEF t
        <5> QED BY <2>2, <2>5, <2>8, <4>1 DEF Covered
      <4> QED BY <2>4, <2>6, <4>2, WidensCovered
    <3> QED BY <3>1, <3>2
  <2>9. Pair(r) /\ r.t = u /\ r.d = s.d
    BY <2>7, Replaced
  <2> HIDE DEF r
  <2>10. Covers(s) => Covers(r)
    BY <2>8, <2>9 DEF Covers
  <2>11. Printed(s, r)
    BY <2>7, <2>9, <2>10 DEF Printed
  <2> QED BY <2>11 DEF r, u, w
<1>4. CASE a \notin CellIds
  <2>1. a < 0
    BY <1>2, <1>4, TerminalSizes DEF CellIds
  <2>2. w = [t EXCEPT !.outside = TRUE]
    BY <1>4 DEF WriteCell, CellIds
  <2> HIDE DEF w
  <2>3. /\ Record(w) /\ w.cells = t.cells /\ w.x = t.x /\ w.y = t.y /\ w.start = t.start
        /\ w.end = t.end /\ w.dirty = t.dirty /\ w.full = t.full /\ w.gr = t.gr
        /\ w.font = t.font
    <3> HIDE DEF t
    <3> QED BY <1>1, <2>2, Zenon DEF Record, Fields
  <2>4. Terminal(w)
    <3> HIDE DEF t
    <3> QED BY <1>1, <2>3 DEF Terminal
  <2>5. LastDirty(w) = LastDirty(t)
    BY <2>3 DEF LastDirty
  <2>6. Widens(w, u)
    BY <2>4, MarkWidens
  <2>7. Terminal(u)
    BY <2>6 DEF Widens
  <2> HIDE DEF u
  <2>8. ASSUME NEW d, NEW i \in CellIds, Covered(t, d, i)
        PROVE  Covered(u, d, i)
    <3>1. Drawn(t, d, i) => Drawn(w, d, i)
      BY <2>3, SameDrawn
    <3>2. Covered(w, d, i)
      <4> HIDE DEF t
      <4> QED BY <2>3, <2>5, <2>8, <3>1 DEF Covered
    <3> QED BY <2>4, <2>6, <3>2, WidensCovered
  <2>9. Pair(r) /\ r.t = u /\ r.d = s.d
    BY <2>7, Replaced
  <2> HIDE DEF r
  <2>10. Covers(s) => Covers(r)
    BY <2>8, <2>9 DEF Covers
  <2>11. Printed(s, r)
    BY <2>1, <2>9, <2>10 DEF Printed
  <2> QED BY <2>11 DEF r, u, w
<1> QED BY <1>3, <1>4

\* The codes after a BEL.
LEMMA TermcodeRendition ==
  ASSUME NEW gr, Rendition(gr), NEW c
  PROVE  Rendition(Termcode(gr, c))
<1>1. Rendition(Plain)
  BY DEF Rendition, Plain, Colors
<1>2. \A b \in BOOLEAN : /\ Rendition([gr EXCEPT !.dim = b]) /\ Rendition([gr EXCEPT !.bold = b])
                         /\ Rendition([gr EXCEPT !.reverse = b])
  BY DEF Rendition
<1>3. \A k \in Colors : Rendition([gr EXCEPT !.fg = k]) /\ Rendition([gr EXCEPT !.bg = k])
  BY DEF Rendition
<1>4. c \in 17 .. 24 => c - 17 \in Colors
  BY DEF Colors
<1>5. c \in 33 .. 40 => c - 33 \in Colors
  BY DEF Colors
<1>6. CASE c \in 17 .. 24
  <2>1. Termcode(gr, c) = [gr EXCEPT !.fg = c - 17]
    BY <1>6 DEF Termcode
  <2> QED BY <1>3, <1>4, <1>6, <2>1
<1>7. CASE c \in 33 .. 40
  <2>1. Termcode(gr, c) = [gr EXCEPT !.bg = c - 33]
    BY <1>7 DEF Termcode
  <2> QED BY <1>3, <1>5, <1>7, <2>1
<1>8. CASE c \notin 17 .. 24 /\ c \notin 33 .. 40
  <2>1. CASE c = 1
    BY <1>1, <2>1 DEF Termcode
  <2>2. CASE c = 2 \/ c = 5
    <3>1. c = 2 => Termcode(gr, c) = [gr EXCEPT !.dim = TRUE]
      BY DEF Termcode
    <3>2. c = 5 => Termcode(gr, c) = [gr EXCEPT !.dim = FALSE]
      BY DEF Termcode
    <3> QED BY <1>2, <2>2, <3>1, <3>2
  <2>3. CASE c = 3 \/ c = 6
    <3>1. c = 3 => Termcode(gr, c) = [gr EXCEPT !.bold = TRUE]
      BY DEF Termcode
    <3>2. c = 6 => Termcode(gr, c) = [gr EXCEPT !.bold = FALSE]
      BY DEF Termcode
    <3> QED BY <1>2, <2>3, <3>1, <3>2
  <2>4. CASE c = 4 \/ c = 7
    <3>1. c = 4 => Termcode(gr, c) = [gr EXCEPT !.reverse = TRUE]
      BY DEF Termcode
    <3>2. c = 7 => Termcode(gr, c) = [gr EXCEPT !.reverse = FALSE]
      BY DEF Termcode
    <3> QED BY <1>2, <2>4, <3>1, <3>2
  <2>5. CASE c \notin {1, 2, 3, 4, 5, 6, 7}
    BY <1>8, <2>5 DEF Termcode
  <2> QED BY <2>1, <2>2, <2>3, <2>4, <2>5
<1> QED BY <1>6, <1>7, <1>8

\* Eight columns.
LEMMA TabFollows ==
  ASSUME NEW s, Pair(s)
  PROVE  Follows(s, Tab(s))
<1>1. ASSUME NEW q, Pair(q)
      PROVE  Follows(q, Twice(q))
  <2> DEFINE p == VtAdvanceX(q)
  <2>1. Follows(q, p)
    BY <1>1, AdvanceXFollows
  <2> HIDE DEF p
  <2>2. Follows(p, VtAdvanceX(p))
    BY <2>1, AdvanceXFollows DEF Follows
  <2>3. Twice(q) = VtAdvanceX(p)
    BY DEF Twice, p
  <2> QED BY <2>1, <2>2, <2>3, FollowsOn
<1> DEFINE a == Twice(s)
           b == Twice(a)
           d == Twice(b)
           e == Twice(d)
<1>2. Follows(s, a)
  BY <1>1
<1> HIDE DEF a
<1>3. Follows(a, b)
  BY <1>1, <1>2 DEF Follows
<1> HIDE DEF b
<1>4. Follows(b, d)
  BY <1>1, <1>3 DEF Follows
<1> HIDE DEF d
<1>5. Follows(d, e)
  BY <1>1, <1>4 DEF Follows
<1> HIDE DEF e
<1>6. Follows(s, b) /\ Follows(b, e)
  BY <1>2, <1>3, <1>4, <1>5, FollowsOn
<1>7. Follows(s, e)
  BY <1>6, FollowsOn
<1>8. Tab(s) = e
  BY DEF Tab, a, b, d, e
<1> QED BY <1>7, <1>8

\* The rendition, or what the next character is taken for.
LEMMA RenditionFollows ==
  ASSUME NEW s, Pair(s), NEW gr, Rendition(gr), NEW b
  PROVE  Follows(s, [s EXCEPT !.t = [s.t EXCEPT !.gr = gr, !.termcode = b]])
<1> DEFINE t == s.t
           u == [t EXCEPT !.gr = gr, !.termcode = b]
<1>1. Terminal(t) /\ Record(t)
  BY DEF Pair, Terminal
<1>2. /\ Record(u) /\ u.cells = t.cells /\ u.x = t.x /\ u.y = t.y
      /\ u.start = t.start /\ u.end = t.end /\ u.dirty = t.dirty /\ u.full = t.full /\ u.gr = gr
      /\ u.outside = t.outside /\ u.font = t.font
  <2> HIDE DEF t
  <2> QED BY <1>1, Zenon DEF Record, Fields
<1> HIDE DEF u
<1>3. Terminal(u)
  <2> HIDE DEF t
  <2> QED BY <1>1, <1>2 DEF Terminal
<1>4. LastDirty(u) = LastDirty(t)
  BY <1>2 DEF LastDirty
<1>5. LastDirty(t) \in Int /\ t.start \in Int
  BY <1>1, LastDirtyCell, TerminalSizes DEF Terminal, CellIds, Starts
<1>6. Widens(t, u)
  <2> HIDE DEF t
  <2> QED BY <1>2, <1>3, <1>4, <1>5 DEF Widens
<1>7. Follows(s, [s EXCEPT !.t = u])
  BY <1>6, WidensFollows
<1> QED BY <1>7 DEF u

\* kprintc, whatever the character.
LEMMA KprintcPrinted ==
  ASSUME NEW s, Pair(s), NEW c
  PROVE  Printed(s, Kprintc(s, c))
<1>1. \A r : Follows(s, r) => Printed(s, r)
  BY DEF Follows, Printed
<1>2. CASE s.t.termcode
  <2> DEFINE gr == Termcode(s.t.gr, c)
             r == [s EXCEPT !.t = [s.t EXCEPT !.gr = gr, !.termcode = FALSE]]
  <2>1. Rendition(gr)
    BY TermcodeRendition DEF Pair, Terminal
  <2>2. Kprintc(s, c) = r
    BY <1>2 DEF Kprintc
  <2> HIDE DEF gr
  <2>3. Follows(s, r)
    BY <2>1, RenditionFollows
  <2> HIDE DEF r
  <2> QED BY <1>1, <2>2, <2>3
<1>3. CASE ~s.t.termcode /\ c = LF
  <2> DEFINE u == Mark(s.t)
             q == [s EXCEPT !.t = u]
             f == VtFlush(q)
  <2>1. Widens(s.t, u)
    BY MarkWidens DEF Pair
  <2>2. Kprintc(s, c) = VtAdvanceY(f)
    BY <1>3 DEF Kprintc, CR, LF, BS, BEL, HT
  <2> HIDE DEF u
  <2>3. Follows(s, q)
    BY <2>1, WidensFollows
  <2> HIDE DEF q
  <2>4. Follows(q, f)
    BY <2>3, FlushFollows DEF Follows
  <2> HIDE DEF f
  <2>5. Follows(f, VtAdvanceY(f))
    BY <2>4, AdvanceYFollows DEF Follows
  <2>6. Follows(s, f)
    BY <2>3, <2>4, FollowsOn
  <2>7. Follows(s, VtAdvanceY(f))
    BY <2>5, <2>6, FollowsOn
  <2> QED BY <1>1, <2>2, <2>7
<1>4. CASE ~s.t.termcode /\ c = CR
  <2>1. Kprintc(s, c) = [s EXCEPT !.t.x = 0]
    BY <1>4 DEF Kprintc, CR, LF, BS, BEL, HT
  <2>2. Follows(s, [s EXCEPT !.t.x = 0])
    BY TerminalSizes, ColumnFollows
  <2> QED BY <1>1, <2>1, <2>2
<1>5. CASE ~s.t.termcode /\ c = BS
  <2> DEFINE x == s.t.x - 1
             r == [s EXCEPT !.t.x = x]
  <2>1. Kprintc(s, c) = r
    BY <1>5 DEF Kprintc, CR, LF, BS, BEL, HT, Pair
  <2>2. x \in Int /\ x < VtWidth
    BY TerminalSizes DEF Pair, Terminal
  <2> HIDE DEF x
  <2>3. Follows(s, r)
    BY <2>2, ColumnFollows
  <2> HIDE DEF r
  <2> QED BY <1>1, <2>1, <2>3
<1>6. CASE ~s.t.termcode /\ c = BEL
  <2> DEFINE r == [s EXCEPT !.t = [s.t EXCEPT !.gr = s.t.gr, !.termcode = TRUE]]
  <2>1. Kprintc(s, c) = [s EXCEPT !.t.termcode = TRUE]
    BY <1>6 DEF Kprintc, CR, LF, BS, BEL, HT
  <2>2. [s EXCEPT !.t.termcode = TRUE] = r
    <3>1. [s.t EXCEPT !.gr = s.t.gr] = s.t
      <4>1. Record(s.t)
        BY DEF Pair, Terminal
      <4> QED BY <4>1 DEF Record
    <3> QED BY <3>1 DEF Pair
  <2>3. Rendition(s.t.gr)
    BY DEF Pair, Terminal
  <2>4. Follows(s, r)
    BY <2>3, RenditionFollows
  <2> HIDE DEF r
  <2> QED BY <1>1, <2>1, <2>2, <2>4
<1>7. CASE ~s.t.termcode /\ c = HT
  <2>1. Kprintc(s, c) = Tab(s)
    BY <1>7 DEF Kprintc, CR, LF, BS, BEL, HT
  <2> QED BY <1>1, <2>1, TabFollows
<1>8. CASE ~s.t.termcode /\ c \notin {LF, CR, BS, BEL, HT}
  <2> DEFINE q == [s EXCEPT !.t = Mark(WriteCell(s.t, c))]
  <2>1. Kprintc(s, c) = VtAdvanceX(q)
    BY <1>8 DEF Kprintc
  <2>2. Printed(s, q)
    BY WriteFollows
  <2> HIDE DEF q
  <2>3. Follows(q, VtAdvanceX(q))
    BY <2>2, AdvanceXFollows DEF Printed
  <2>4. Printed(s, VtAdvanceX(q))
    BY <2>2, <2>3 DEF Printed, Follows
  <2> QED BY <2>1, <2>4
<1> QED BY <1>2, <1>3, <1>4, <1>5, <1>6, <1>7, <1>8

-----------------------------------------------------------------------------
(***************************************************************************)
(* The invariant.                                                          *)
(***************************************************************************)
Pcs == {"idle", "lock", "chars", "flush", "full", "dirty", "reset"}

FlushPcs == {"full", "dirty", "reset"}

Job(j) == /\ j = [pc |-> j.pc, call |-> j.call, text |-> j.text, i |-> j.i]
          /\ j.pc \in Pcs /\ j.i \in Nat

Jobs == job = [c \in Cpus |-> job[c]] /\ \A c \in Cpus : Job(job[c])

\* A CPU that prints characters has the lock.
Holding == \A c \in Cpus : job[c].pc = "chars" => lock = c

AllDrawn(t, d) == \A i \in CellIds : Drawn(t, d, i)

AllCovered(t, d) == \A i \in CellIds : Covered(t, d, i)

\* What the only CPU that flushes has drawn, or has found drawn.
FlushedSoFar(t, d, j) ==
  /\ j.pc = "full" => \A i \in CellIds : i < j.i => Drawn(t, d, i)
  /\ j.pc = "dirty" => \A i \in CellIds : Drawn(t, d, i) \/ (j.i <= i /\ i <= LastDirty(t))
  /\ j.pc = "reset" => AllDrawn(t, d)

FlushingIn(jobs) == {c \in Cpus : jobs[c].pc \in FlushPcs}

\* What the screen shows if no flushes overlapped and no drm was switched to,
\* or if a complete redraw has begun since.
Picture(t, d, jobs, why) ==
  why \subseteq {"redraw"} /\ d.active = 0 =>
    /\ FlushingIn(jobs) = {} => AllCovered(t, d)
    /\ (\A c \in Cpus : jobs[c].pc \in {"idle", "lock"}) => AllDrawn(t, d)
    /\ \A c \in Cpus : FlushingIn(jobs) = {c} => FlushedSoFar(t, d, jobs[c])

VtInv == /\ Terminal(vt) /\ Display(display) /\ Jobs /\ Holding
         /\ Picture(vt, display, job, behind)

\* A write outside of the cells comes after a backspace.
OutsideStep == vt'.outside # vt.outside => At(vt) < 0

\* A job of c gives way to j.
LEMMA JobMoves ==
  ASSUME Jobs, NEW c \in Cpus, NEW j, Job(j), job' = [job EXCEPT ![c] = j]
  PROVE  /\ Jobs'
         /\ job'[c] = j /\ \A d \in Cpus \ {c} : job'[d] = job[d]
         /\ FlushingIn(job') = IF j.pc \in FlushPcs THEN Flushing \cup {c} ELSE Flushing \ {c}
<1>1. job'[c] = j /\ (\A d \in Cpus \ {c} : job'[d] = job[d]) /\ job' = [d \in Cpus |-> job'[d]]
  BY DEF Jobs
<1>2. Jobs'
  BY <1>1 DEF Jobs
<1>3. Flushing = FlushingIn(job)
  BY DEF Flushing, FlushingIn, FlushPcs
<1>4. FlushingIn(job') = IF j.pc \in FlushPcs THEN FlushingIn(job) \cup {c} ELSE FlushingIn(job) \ {c}
  BY <1>1 DEF FlushingIn
<1> QED BY <1>1, <1>2, <1>3, <1>4

\* The invariant's parts, as they stand before a step.
LEMMA Before ==
  ASSUME VtInv
  PROVE  /\ Terminal(vt) /\ Display(display) /\ Jobs /\ Holding
         /\ Picture(vt, display, job, behind) /\ Flushing = FlushingIn(job)
         /\ \A c \in Cpus : Job(job[c])
BY DEF VtInv, Flushing, FlushingIn, FlushPcs, Jobs

\* A step without effect on the screen or the terminal, neither in nor into
\* a flush, that does not end the printing of a CPU.
LEMMA QuietStep ==
  ASSUME VtInv, NEW c \in Cpus, NEW j, Job(j), job' = [job EXCEPT ![c] = j],
         UNCHANGED <<display, vt, behind>>,
         job[c].pc \notin FlushPcs, j.pc \notin FlushPcs,
         j.pc \in {"idle", "lock"} => job[c].pc \in {"idle", "lock"},
         j.pc = "chars" => lock' = c,
         \A d \in Cpus \ {c} : job[d].pc = "chars" => lock' = d
  PROVE  VtInv' /\ OutsideStep
<1>1. Jobs' /\ job'[c] = j /\ (\A d \in Cpus \ {c} : job'[d] = job[d])
      /\ FlushingIn(job') = Flushing \ {c}
  BY JobMoves, Before
<1>2. c \notin Flushing /\ Flushing = FlushingIn(job)
  BY Before DEF FlushingIn
<1>3. Holding'
  BY <1>1 DEF Holding
<1>4. Picture(vt', display', job', behind')
  <2> SUFFICES ASSUME behind \subseteq {"redraw"}, display.active = 0
               PROVE  /\ FlushingIn(job') = {} => AllCovered(vt, display)
                      /\ (\A d \in Cpus : job'[d].pc \in {"idle", "lock"}) => AllDrawn(vt, display)
                      /\ \A d \in Cpus : FlushingIn(job') = {d} => FlushedSoFar(vt, display, job'[d])
    BY DEF Picture
  <2>1. /\ FlushingIn(job) = {} => AllCovered(vt, display)
        /\ (\A d \in Cpus : job[d].pc \in {"idle", "lock"}) => AllDrawn(vt, display)
        /\ \A d \in Cpus : FlushingIn(job) = {d} => FlushedSoFar(vt, display, job[d])
    BY Before DEF Picture
  <2>2. FlushingIn(job') = FlushingIn(job)
    BY <1>1, <1>2
  <2>3. (\A d \in Cpus : job'[d].pc \in {"idle", "lock"}) =>
          \A d \in Cpus : job[d].pc \in {"idle", "lock"}
    BY <1>1
  <2>4. \A d \in Cpus : FlushingIn(job') = {d} => job'[d] = job[d]
    BY <1>1, <1>2
  <2> QED BY <2>1, <2>2, <2>3, <2>4
<1>5. Terminal(vt') /\ Display(display')
  BY Before
<1> QED BY <1>1, <1>3, <1>4, <1>5 DEF VtInv, OutsideStep

\* A call of kprintf only puts its text into the caller's job.
LEMMA KprintfInv ==
  ASSUME VtInv, NEW c \in Cpus, Kprintf(c)
  PROVE  VtInv' /\ OutsideStep
<1>1. PICK call \in Calls :
        job' = [job EXCEPT ![c] = [pc |-> "lock", call |-> call, i |-> 0,
                                   text |-> Kvfprintf(call.fmt, call.args).out]]
  BY DEF Kprintf
<1> DEFINE j == [pc |-> "lock", call |-> call, i |-> 0, text |-> Kvfprintf(call.fmt, call.args).out]
<1>2. Job(j) /\ j.pc = "lock"
  BY DEF Job, Pcs
<1>3. job' = [job EXCEPT ![c] = j]
  BY <1>1
<1> HIDE DEF j
<1>4. job[c].pc = "idle" /\ UNCHANGED <<display, vt, lock, behind>>
  BY DEF Kprintf
<1>5. \A d \in Cpus \ {c} : job[d].pc = "chars" => lock' = d
  BY <1>4, Before DEF Holding
<1> QED BY <1>2, <1>3, <1>4, <1>5, QuietStep DEF FlushPcs

\* The job of c goes on at pc.
LEMMA JobGoesOn ==
  ASSUME VtInv, NEW c \in Cpus, NEW pc \in Pcs, JobTo(c, pc)
  PROVE  \E j : Job(j) /\ j.pc = pc /\ j.i = job[c].i /\ job' = [job EXCEPT ![c] = j]
<1> DEFINE j == [job[c] EXCEPT !.pc = pc]
<1>1. Job(job[c])
  BY Before
<1>2. Job(j) /\ j.pc = pc /\ j.i = job[c].i
  BY <1>1 DEF Job
<1>3. job' = [job EXCEPT ![c] = j]
  BY Before DEF JobTo, Jobs
<1> QED BY <1>2, <1>3

\* kprint takes the lock, and draws nothing.
LEMMA LockInv ==
  ASSUME VtInv, NEW c \in Cpus, Lock(c)
  PROVE  VtInv' /\ OutsideStep
<1>1. job[c].pc = "lock" /\ lock = NoOne /\ lock' = c /\ UNCHANGED <<display, vt, behind>>
  BY DEF Lock
<1>2. PICK j : Job(j) /\ j.pc = "chars" /\ job' = [job EXCEPT ![c] = j]
  BY JobGoesOn DEF Lock, Pcs
<1>3. \A d \in Cpus \ {c} : job[d].pc # "chars"
  BY <1>1, NobodyAssumption, Before DEF Holding
<1> QED BY <1>1, <1>2, <1>3, QuietStep DEF FlushPcs

\* kprint drops the lock, and draws nothing.
LEMMA UnlockInv ==
  ASSUME VtInv, NEW c \in Cpus, Unlock(c)
  PROVE  VtInv' /\ OutsideStep
<1>1. job[c].pc = "chars" /\ lock' = NoOne /\ UNCHANGED <<display, vt, behind>>
  BY DEF Unlock
<1>2. PICK j : Job(j) /\ j.pc = "flush" /\ job' = [job EXCEPT ![c] = j]
  BY JobGoesOn DEF Unlock, Pcs
<1>3. \A d \in Cpus \ {c} : job[d].pc # "chars"
  BY <1>1, Before DEF Holding
<1> QED BY <1>1, <1>2, <1>3, QuietStep DEF FlushPcs

\* Nothing was left out only if no other CPU flushed.
LEMMA Undisturbed ==
  ASSUME NEW c \in Cpus, Disturbs(c), behind' \subseteq {"redraw"}
  PROVE  behind \subseteq {"redraw"} /\ Flushing \subseteq {c}
<1>1. Flushing \ {c} = {}
  <2>1. Flushing \ {c} # {} => "race" \in behind'
    BY DEF Disturbs
  <2>2. "race" \notin {"redraw"}
    OBVIOUS
  <2> QED BY <2>1, <2>2
<1> QED BY <1>1 DEF Disturbs

\* A character leaves what it does not draw in the range (kprintc), or is printed
\* beside a flush.
LEMMA PutCharInv ==
  ASSUME VtInv, NEW c \in Cpus, PutChar(c)
  PROVE  VtInv' /\ OutsideStep
<1> DEFINE r == Kprintc(Now, job[c].text[job[c].i + 1])
           j == [job[c] EXCEPT !.i = @ + 1]
<1>1. /\ job[c].pc = "chars" /\ Disturbs(c) /\ job' = [job EXCEPT ![c].i = @ + 1]
      /\ vt' = r.t /\ display' = r.d /\ lock' = lock
  BY DEF PutChar, Become
<1>2. Job(j) /\ j.pc = "chars" /\ job' = [job EXCEPT ![c] = j]
  <2>1. Job(job[c])
    BY Before
  <2>2. Job(j) /\ j.pc = "chars"
    BY <1>1, <2>1 DEF Job
  <2> QED BY <1>1, <2>2, Before DEF Jobs
<1> HIDE DEF j
<1>3. Pair(Now) /\ Now.t = vt /\ Now.d = display
  BY Before DEF Pair, Now
<1>4. Printed(Now, r)
  BY <1>3, KprintcPrinted
<1> HIDE DEF r
<1>5. /\ Terminal(vt') /\ Display(display') /\ display'.active = display.active
      /\ OutsideStep
  BY <1>1, <1>3, <1>4 DEF Printed, Pair, OutsideStep
<1>6. Jobs' /\ job'[c] = j /\ (\A d \in Cpus \ {c} : job'[d] = job[d])
      /\ FlushingIn(job') = Flushing \ {c}
  BY <1>2, Before, JobMoves DEF FlushPcs
<1>7. Holding'
  BY <1>1, <1>2, <1>6, Before DEF Holding
<1>8. Picture(vt', display', job', behind')
  <2> SUFFICES ASSUME behind' \subseteq {"redraw"}, display'.active = 0
               PROVE  /\ AllCovered(vt', display')
                      /\ ~(\A d \in Cpus : job'[d].pc \in {"idle", "lock"})
                      /\ FlushingIn(job') = {}
    BY DEF Picture
  <2>1. behind \subseteq {"redraw"} /\ Flushing \subseteq {c}
    BY <1>1, Undisturbed
  <2>2. Flushing = {}
    BY <1>1, <2>1, Before DEF FlushingIn, FlushPcs
  <2>3. AllCovered(vt, display)
    BY <1>5, <2>1, <2>2, Before DEF Picture
  <2>4. Covers(Now)
    BY <1>3, <2>3 DEF Covers, AllCovered
  <2>5. AllCovered(vt', display')
    BY <1>1, <1>4, <2>4 DEF Printed, Covers, AllCovered
  <2> QED BY <1>2, <1>6, <2>2, <2>5
<1> QED BY <1>5, <1>6, <1>7, <1>8 DEF VtInv

\* A CPU that does not print leaves the lock to those that do.
LEMMA HoldingKept ==
  ASSUME VtInv, NEW c \in Cpus, NEW j, j.pc # "chars", lock' = lock,
         job'[c] = j, \A d \in Cpus \ {c} : job'[d] = job[d]
  PROVE  Holding'
BY Before DEF Holding

\* A flush begins with the whole terminal, or with the first dirty cell.
LEMMA BeginFlushInv ==
  ASSUME VtInv, NEW c \in Cpus, BeginFlush(c)
  PROVE  VtInv' /\ OutsideStep
<1>1. job[c].pc = "flush" /\ UNCHANGED <<vt, lock>>
  BY DEF BeginFlush
<1>2. c \notin Flushing /\ Flushing = FlushingIn(job) /\ Job(job[c])
  BY <1>1, Before DEF FlushingIn, FlushPcs
<1>3. Terminal(vt) /\ Display(display)
  BY Before
<1>4. CASE vt.full
  <2>1. display' = DrmClear(display, 0) /\ Redraws(c)
        /\ job' = [job EXCEPT ![c].pc = "full", ![c].i = 0]
    BY <1>4 DEF BeginFlush
  <2>2. "full" \in Pcs /\ 0 \in Nat
    BY DEF Pcs
  <2>3. PICK j : Job(j) /\ j.pc = "full" /\ j.i = 0 /\ job' = [job EXCEPT ![c] = j]
    <3> DEFINE a == [job[c] EXCEPT !.pc = "full"]
               b == [a EXCEPT !.i = 0]
    <3>1. job' = [job EXCEPT ![c] = b]
      BY <2>1, Before DEF Jobs
    <3>2. Job(a) /\ a.pc = "full"
      BY <1>2, <2>2 DEF Job
    <3> HIDE DEF a
    <3>3. Job(b) /\ b.pc = "full" /\ b.i = 0
      BY <2>2, <3>2 DEF Job
    <3> QED BY <3>1, <3>3
  <2>4. Jobs' /\ job'[c] = j /\ (\A d \in Cpus \ {c} : job'[d] = job[d])
        /\ FlushingIn(job') = Flushing \cup {c}
    BY <2>3, Before, JobMoves DEF FlushPcs
  <2>5. Display(display') /\ display'.active = display.active
    BY <1>3, <2>1, ClearIs
  <2>6. Picture(vt', display', job', behind')
    <3> SUFFICES ASSUME behind' \subseteq {"redraw"}, display'.active = 0
                 PROVE  /\ FlushingIn(job') # {}
                        /\ ~(\A d \in Cpus : job'[d].pc \in {"idle", "lock"})
                        /\ \A d \in Cpus : FlushingIn(job') = {d} => FlushedSoFar(vt', display', job'[d])
      BY DEF Picture
    <3>1. \A d \in Cpus : FlushingIn(job') = {d} => d = c
      BY <2>4
    <3>2. \A i \in CellIds : ~(i < j.i)
      BY <2>3 DEF CellIds
    <3>3. FlushedSoFar(vt', display', j)
      BY <2>3, <3>2 DEF FlushedSoFar
    <3> QED BY <2>3, <2>4, <3>1, <3>3
  <2>7. Holding'
    BY <1>1, <2>3, <2>4, HoldingKept
  <2> QED BY <1>1, <1>3, <2>4, <2>5, <2>6, <2>7 DEF VtInv, OutsideStep
<1>5. CASE ~vt.full
  <2> DEFINE pc == IF vt.dirty THEN "dirty" ELSE "reset"
  <2>1. display' = display /\ Disturbs(c)
        /\ job' = [job EXCEPT ![c].pc = pc, ![c].i = vt.start]
    BY <1>5 DEF BeginFlush
  <2>2. vt.start \in Nat /\ pc \in Pcs
    BY <1>3, TerminalSizes DEF Terminal, Starts, Pcs
  <2>3. PICK j : Job(j) /\ j.pc = pc /\ j.i = vt.start /\ job' = [job EXCEPT ![c] = j]
    <3> DEFINE a == [job[c] EXCEPT !.pc = pc]
               b == [a EXCEPT !.i = vt.start]
    <3>1. job' = [job EXCEPT ![c] = b]
      BY <2>1, Before DEF Jobs
    <3> HIDE DEF pc
    <3>2. Job(a) /\ a.pc = pc
      BY <1>2, <2>2 DEF Job
    <3> HIDE DEF a
    <3>3. Job(b) /\ b.pc = pc /\ b.i = vt.start
      BY <2>2, <3>2 DEF Job
    <3> QED BY <3>1, <3>3
  <2>4. Jobs' /\ job'[c] = j /\ (\A d \in Cpus \ {c} : job'[d] = job[d])
        /\ FlushingIn(job') = Flushing \cup {c}
    BY <2>3, Before, JobMoves DEF FlushPcs
  <2>5. Picture(vt', display', job', behind')
    <3> SUFFICES ASSUME behind' \subseteq {"redraw"}, display'.active = 0
                 PROVE  /\ FlushingIn(job') # {}
                        /\ ~(\A d \in Cpus : job'[d].pc \in {"idle", "lock"})
                        /\ \A d \in Cpus : FlushingIn(job') = {d} => FlushedSoFar(vt', display', job'[d])
      BY DEF Picture
    <3>1. \A d \in Cpus : FlushingIn(job') = {d} => d = c
      BY <2>4
    <3>2. behind \subseteq {"redraw"} /\ Flushing = {}
      BY <1>2, <2>1, Undisturbed
    <3>3. AllCovered(vt, display)
      BY <1>2, <2>1, <3>2, Before DEF Picture
    <3>4. FlushedSoFar(vt, display, j)
      BY <1>5, <2>3, <3>3 DEF AllCovered, Covered, FlushedSoFar, AllDrawn
    <3>5. j.pc \notin {"idle", "lock"}
      BY <2>3
    <3> QED BY <1>1, <2>1, <2>4, <3>1, <3>4, <3>5
  <2>6. Holding'
    BY <1>1, <2>3, <2>4, HoldingKept
  <2> QED BY <1>1, <1>3, <2>1, <2>4, <2>5, <2>6 DEF VtInv, OutsideStep
<1> QED BY <1>4, <1>5

\* The job of c goes on to the next cell.
JobNext(c) == job' = [job EXCEPT ![c].i = @ + 1]

\* The job of a flush goes on with the next cell.
LEMMA JobCounts ==
  ASSUME VtInv, NEW c \in Cpus, JobNext(c)
  PROVE  \E j : Job(j) /\ j.pc = job[c].pc /\ j.i = job[c].i + 1 /\ job' = [job EXCEPT ![c] = j]
<1> DEFINE j == [job[c] EXCEPT !.i = @ + 1]
<1>1. Job(job[c])
  BY Before
<1>2. Job(j) /\ j.pc = job[c].pc /\ j.i = job[c].i + 1
  BY <1>1 DEF Job
<1>3. job' = [job EXCEPT ![c] = j]
  BY Before DEF JobNext, Jobs
<1> QED BY <1>2, <1>3

\* While c flushes alone, the picture is what c has flushed so far.
LEMMA FlushingPicture ==
  ASSUME NEW c \in Cpus, NEW j, j.pc \in FlushPcs, job'[c] = j,
         FlushingIn(job') = Flushing \cup {c},
         behind' \subseteq {"redraw"} /\ display'.active = 0 =>
           Flushing = {c} /\ FlushedSoFar(vt', display', j)
  PROVE  Picture(vt', display', job', behind')
<1> SUFFICES ASSUME behind' \subseteq {"redraw"}, display'.active = 0
             PROVE  /\ FlushingIn(job') # {}
                    /\ ~(\A d \in Cpus : job'[d].pc \in {"idle", "lock"})
                    /\ \A d \in Cpus : FlushingIn(job') = {d} => FlushedSoFar(vt', display', job'[d])
  BY DEF Picture
<1>1. j.pc \notin {"idle", "lock"}
  BY DEF FlushPcs
<1>2. \A d \in Cpus : FlushingIn(job') = {d} => d = c
  OBVIOUS
<1>3. FlushedSoFar(vt', display', j)
  OBVIOUS
<1> QED BY <1>1, <1>2, <1>3

\* What is flushed so far, before a step.
LEMMA FlushedBefore ==
  ASSUME VtInv, NEW c \in Cpus, behind \subseteq {"redraw"}, display.active = 0, Flushing = {c}
  PROVE  FlushedSoFar(vt, display, job[c])
BY Before DEF Picture

\* A terminal without the flags, or with its range reset.
LEMMA FlagsReset ==
  ASSUME NEW t, Terminal(t), NEW full \in BOOLEAN, NEW u,
         u = [t EXCEPT !.full = full, !.dirty = FALSE]
  PROVE  Terminal(u) /\ u.outside = t.outside /\ \A d : AllDrawn(t, d) => AllDrawn(u, d)
<1>1. Record(t)
  BY DEF Terminal
<1>2. /\ Record(u) /\ u.cells = t.cells /\ u.x = t.x /\ u.y = t.y /\ u.start = t.start
      /\ u.end = t.end /\ u.dirty = FALSE /\ u.full = full /\ u.gr = t.gr
      /\ u.outside = t.outside /\ u.font = t.font
  BY <1>1, Zenon DEF Record, Fields
<1>3. Terminal(u)
  BY <1>2 DEF Terminal
<1>4. \A d : AllDrawn(t, d) => AllDrawn(u, d)
  <2>1. \A d, i : Drawn(t, d, i) => Drawn(u, d, i)
    BY <1>2, SameDrawn
  <2> QED BY <2>1 DEF AllDrawn
<1> QED BY <1>2, <1>3, <1>4

\* Emptying the range changes no cell.
LEMMA RangeReset ==
  ASSUME NEW t, Terminal(t), NEW u, u = ResetRange(t)
  PROVE  Terminal(u) /\ u.outside = t.outside /\ \A d : AllDrawn(t, d) => AllDrawn(u, d)
<1>1. Record(t) /\ u = [t EXCEPT !.start = Cells, !.end = 1]
  BY DEF Terminal, ResetRange
<1>2. /\ Record(u) /\ u.cells = t.cells /\ u.x = t.x /\ u.y = t.y /\ u.start = Cells
      /\ u.end = 1 /\ u.dirty = t.dirty /\ u.full = t.full /\ u.gr = t.gr
      /\ u.outside = t.outside /\ u.font = t.font
  BY <1>1, Zenon DEF Record, Fields
<1>3. Cells \in Starts
  BY TerminalSizes DEF Starts
<1>4. Terminal(u)
  BY <1>2, <1>3 DEF Terminal
<1>5. \A d : AllDrawn(t, d) => AllDrawn(u, d)
  <2>1. \A d, i : Drawn(t, d, i) => Drawn(u, d, i)
    BY <1>2, SameDrawn
  <2> QED BY <2>1 DEF AllDrawn
<1> QED BY <1>2, <1>4, <1>5

\* A complete redraw draws the next cell, or ends with all of them drawn.
LEMMA FlushAllInv ==
  ASSUME VtInv, NEW c \in Cpus, FlushAll(c)
  PROVE  VtInv' /\ OutsideStep
<1>1. job[c].pc = "full" /\ lock' = lock
  BY DEF FlushAll
<1>2. c \in Flushing /\ Job(job[c]) /\ Terminal(vt) /\ Display(display)
  BY <1>1, Before DEF Flushing
<1>3. CASE job[c].i < Cells
  <2>1. /\ display' = VtDrawChar(vt, display, job[c].i) /\ vt' = vt
        /\ JobNext(c) /\ Disturbs(c)
    BY <1>3 DEF FlushAll, JobNext
  <2>2. job[c].i \in CellIds
    BY <1>2, <1>3, TerminalSizes DEF Job, CellIds
  <2>3. DrewCells(vt, display, display', {job[c].i})
    BY <1>2, <2>1, <2>2, DrawOne
  <2>4. Display(display') /\ display'.active = display.active
    BY <2>3 DEF DrewCells
  <2>5. PICK j : Job(j) /\ j.pc = "full" /\ j.i = job[c].i + 1 /\ job' = [job EXCEPT ![c] = j]
    BY <1>1, <2>1, JobCounts
  <2>6. Jobs' /\ job'[c] = j /\ (\A d \in Cpus \ {c} : job'[d] = job[d])
        /\ FlushingIn(job') = Flushing \cup {c}
    BY <2>5, Before, JobMoves DEF FlushPcs
  <2>7. behind' \subseteq {"redraw"} => behind \subseteq {"redraw"} /\ Flushing = {c}
    BY <1>2, <2>1, Undisturbed
  <2>8. ASSUME behind' \subseteq {"redraw"}, display'.active = 0
        PROVE  FlushedSoFar(vt', display', j)
    <3>1. FlushedSoFar(vt, display, job[c])
      BY <2>4, <2>7, <2>8, FlushedBefore
    <3>2. \A i \in CellIds : i < j.i => i < job[c].i \/ i \in {job[c].i}
      BY <1>2, <2>5 DEF Job, CellIds
    <3>3. \A i \in CellIds : i \in {job[c].i} \/ Drawn(vt, display, i) => Drawn(vt, display', i)
      BY <2>3, <2>4, <2>8 DEF DrewCells
    <3>4. \A i \in CellIds : i < j.i => Drawn(vt, display', i)
      BY <1>1, <3>1, <3>2, <3>3 DEF FlushedSoFar
    <3> QED BY <2>1, <2>5, <3>4 DEF FlushedSoFar
  <2>9. Picture(vt', display', job', behind')
    <3>1. behind' \subseteq {"redraw"} /\ display'.active = 0 =>
            Flushing = {c} /\ FlushedSoFar(vt', display', j)
      BY <2>7, <2>8
    <3>2. j.pc \in FlushPcs
      BY <2>5 DEF FlushPcs
    <3> QED BY <2>6, <3>1, <3>2, FlushingPicture
  <2>10. Holding'
    BY <1>1, <2>5, <2>6, HoldingKept
  <2> QED BY <1>2, <2>1, <2>4, <2>6, <2>9, <2>10 DEF VtInv, OutsideStep
<1>4. CASE ~(job[c].i < Cells)
  <2>1. /\ vt' = [vt EXCEPT !.full = FALSE, !.dirty = FALSE] /\ display' = display
        /\ JobTo(c, "reset")
        /\ behind' = IF Flushing = {c} THEN behind \ {"redraw"} ELSE behind \cup {"race"}
    BY <1>4 DEF FlushAll
  <2>2. Terminal(vt') /\ vt'.outside = vt.outside /\ \A d : AllDrawn(vt, d) => AllDrawn(vt', d)
    BY <1>2, <2>1, FlagsReset
  <2>3. PICK j : Job(j) /\ j.pc = "reset" /\ job' = [job EXCEPT ![c] = j]
    BY <2>1, JobGoesOn DEF Pcs
  <2>4. Jobs' /\ job'[c] = j /\ (\A d \in Cpus \ {c} : job'[d] = job[d])
        /\ FlushingIn(job') = Flushing \cup {c}
    BY <2>3, Before, JobMoves DEF FlushPcs
  <2>5. behind' \subseteq {"redraw"} => behind \subseteq {"redraw"} /\ Flushing = {c}
    <3>1. "race" \notin {"redraw"}
      OBVIOUS
    <3> QED BY <2>1, <3>1
  <2>6. ASSUME behind' \subseteq {"redraw"}, display'.active = 0
        PROVE  FlushedSoFar(vt', display', j)
    <3>1. FlushedSoFar(vt, display, job[c])
      BY <2>1, <2>5, <2>6, FlushedBefore
    <3>2. \A i \in CellIds : i < job[c].i
      BY <1>2, <1>4, TerminalSizes DEF Job, CellIds
    <3>3. AllDrawn(vt, display)
      BY <1>1, <3>1, <3>2 DEF FlushedSoFar, AllDrawn
    <3> QED BY <2>1, <2>2, <2>3, <3>3 DEF FlushedSoFar
  <2>7. Picture(vt', display', job', behind')
    <3>1. behind' \subseteq {"redraw"} /\ display'.active = 0 =>
            Flushing = {c} /\ FlushedSoFar(vt', display', j)
      BY <2>5, <2>6
    <3>2. j.pc \in FlushPcs
      BY <2>3 DEF FlushPcs
    <3> QED BY <2>4, <3>1, <3>2, FlushingPicture
  <2>8. Holding'
    BY <1>1, <2>3, <2>4, HoldingKept
  <2> QED BY <1>2, <2>1, <2>2, <2>4, <2>7, <2>8 DEF VtInv, OutsideStep
<1> QED BY <1>3, <1>4

\* A flush of the range draws its next cell, or ends with all of them drawn.
LEMMA FlushDirtyInv ==
  ASSUME VtInv, NEW c \in Cpus, FlushDirty(c)
  PROVE  VtInv' /\ OutsideStep
<1>1. job[c].pc = "dirty" /\ lock' = lock /\ Disturbs(c)
  BY DEF FlushDirty
<1>2. c \in Flushing /\ Job(job[c]) /\ Terminal(vt) /\ Display(display)
  BY <1>1, Before DEF Flushing
<1>3. LastDirty(vt) \in CellIds
  BY <1>2, LastDirtyCell
<1>4. behind' \subseteq {"redraw"} => behind \subseteq {"redraw"} /\ Flushing = {c}
  BY <1>1, <1>2, Undisturbed
<1>5. CASE job[c].i \in 0 .. LastDirty(vt)
  <2>1. display' = VtDrawChar(vt, display, job[c].i) /\ vt' = vt /\ JobNext(c)
    BY <1>5 DEF FlushDirty, JobNext
  <2>2. job[c].i \in CellIds
    BY <1>3, <1>5, TerminalSizes DEF CellIds
  <2>3. DrewCells(vt, display, display', {job[c].i})
    BY <1>2, <2>1, <2>2, DrawOne
  <2>4. Display(display') /\ display'.active = display.active
    BY <2>3 DEF DrewCells
  <2>5. PICK j : Job(j) /\ j.pc = "dirty" /\ j.i = job[c].i + 1 /\ job' = [job EXCEPT ![c] = j]
    BY <1>1, <2>1, JobCounts
  <2>6. Jobs' /\ job'[c] = j /\ (\A d \in Cpus \ {c} : job'[d] = job[d])
        /\ FlushingIn(job') = Flushing \cup {c}
    BY <2>5, Before, JobMoves DEF FlushPcs
  <2>7. ASSUME behind' \subseteq {"redraw"}, display'.active = 0
        PROVE  FlushedSoFar(vt', display', j)
    <3>1. FlushedSoFar(vt, display, job[c])
      BY <1>4, <2>4, <2>7, FlushedBefore
    <3>2. \A i \in CellIds : job[c].i <= i => j.i <= i \/ i \in {job[c].i}
      BY <1>2, <2>5 DEF Job, CellIds
    <3>3. \A i \in CellIds : i \in {job[c].i} \/ Drawn(vt, display, i) => Drawn(vt, display', i)
      BY <2>3, <2>4, <2>7 DEF DrewCells
    <3>4. \A i \in CellIds : Drawn(vt, display, i) \/ (job[c].i <= i /\ i <= LastDirty(vt))
      BY <1>1, <3>1 DEF FlushedSoFar
    <3>5. \A i \in CellIds : Drawn(vt, display', i) \/ (j.i <= i /\ i <= LastDirty(vt))
      BY <3>2, <3>3, <3>4
    <3> QED BY <2>1, <2>5, <3>5 DEF FlushedSoFar
  <2>8. Picture(vt', display', job', behind')
    <3>1. behind' \subseteq {"redraw"} /\ display'.active = 0 =>
            Flushing = {c} /\ FlushedSoFar(vt', display', j)
      BY <1>4, <2>7
    <3>2. j.pc \in FlushPcs
      BY <2>5 DEF FlushPcs
    <3> QED BY <2>6, <3>1, <3>2, FlushingPicture
  <2>9. Holding'
    BY <1>1, <2>5, <2>6, HoldingKept
  <2> QED BY <1>2, <2>1, <2>4, <2>6, <2>8, <2>9 DEF VtInv, OutsideStep
<1>6. CASE job[c].i \notin 0 .. LastDirty(vt)
  <2>1. vt' = [vt EXCEPT !.dirty = FALSE] /\ display' = display /\ JobTo(c, "reset")
    BY <1>6 DEF FlushDirty
  <2>2. Terminal(vt') /\ vt'.outside = vt.outside /\ \A d : AllDrawn(vt, d) => AllDrawn(vt', d)
    <3>1. vt' = [vt EXCEPT !.full = vt.full, !.dirty = FALSE]
      <4>1. [vt EXCEPT !.full = vt.full] = vt
        BY <1>2 DEF Terminal, Record
      <4> QED BY <2>1, <4>1
    <3>2. Terminal(vt) /\ vt.full \in BOOLEAN
      BY <1>2 DEF Terminal
    <3> QED BY <3>1, <3>2, FlagsReset, ZenonT(60)
  <2>3. PICK j : Job(j) /\ j.pc = "reset" /\ job' = [job EXCEPT ![c] = j]
    BY <2>1, JobGoesOn DEF Pcs
  <2>4. Jobs' /\ job'[c] = j /\ (\A d \in Cpus \ {c} : job'[d] = job[d])
        /\ FlushingIn(job') = Flushing \cup {c}
    BY <2>3, Before, JobMoves DEF FlushPcs
  <2>5. ASSUME behind' \subseteq {"redraw"}, display'.active = 0
        PROVE  FlushedSoFar(vt', display', j)
    <3>1. FlushedSoFar(vt, display, job[c])
      BY <1>4, <2>1, <2>5, FlushedBefore
    <3>2. \A i \in CellIds : ~(job[c].i <= i /\ i <= LastDirty(vt))
      BY <1>2, <1>3, <1>6 DEF Job, CellIds
    <3>3. AllDrawn(vt, display)
      BY <1>1, <3>1, <3>2 DEF FlushedSoFar, AllDrawn
    <3> QED BY <2>1, <2>2, <2>3, <3>3 DEF FlushedSoFar
  <2>6. Picture(vt', display', job', behind')
    <3>1. behind' \subseteq {"redraw"} /\ display'.active = 0 =>
            Flushing = {c} /\ FlushedSoFar(vt', display', j)
      BY <1>4, <2>5
    <3>2. j.pc \in FlushPcs
      BY <2>3 DEF FlushPcs
    <3> QED BY <2>4, <3>1, <3>2, FlushingPicture
  <2>7. Holding'
    BY <1>1, <2>3, <2>4, HoldingKept
  <2> QED BY <1>2, <2>1, <2>2, <2>4, <2>6, <2>7 DEF VtInv, OutsideStep
<1> QED BY <1>5, <1>6

\* The range is emptied when every cell is drawn, unless flushes overlapped.
LEMMA EndFlushInv ==
  ASSUME VtInv, NEW c \in Cpus, EndFlush(c)
  PROVE  VtInv' /\ OutsideStep
<1>1. /\ job[c].pc = "reset" /\ vt' = ResetRange(vt) /\ job' = [job EXCEPT ![c] = Idle]
      /\ Disturbs(c) /\ UNCHANGED <<display, lock>>
  BY DEF EndFlush
<1>2. c \in Flushing /\ Terminal(vt) /\ Display(display)
  BY <1>1, Before DEF Flushing
<1>3. Job(Idle) /\ Idle.pc = "idle"
  BY DEF Job, Idle, Pcs
<1>4. Jobs' /\ job'[c] = Idle /\ (\A d \in Cpus \ {c} : job'[d] = job[d])
      /\ FlushingIn(job') = Flushing \ {c}
  BY <1>1, <1>3, Before, JobMoves DEF FlushPcs
<1>5. Terminal(vt') /\ vt'.outside = vt.outside /\ \A d : AllDrawn(vt, d) => AllDrawn(vt', d)
  BY <1>1, <1>2, RangeReset
<1>6. Picture(vt', display', job', behind')
  <2> SUFFICES ASSUME behind' \subseteq {"redraw"}, display'.active = 0
               PROVE  /\ AllCovered(vt', display') /\ AllDrawn(vt', display')
                      /\ FlushingIn(job') = {}
    BY DEF Picture
  <2>1. behind \subseteq {"redraw"} /\ Flushing = {c}
    BY <1>1, <1>2, Undisturbed
  <2>2. FlushedSoFar(vt, display, job[c])
    BY <1>1, <2>1, FlushedBefore
  <2>3. AllDrawn(vt', display')
    BY <1>1, <1>5, <2>2 DEF FlushedSoFar
  <2> QED BY <1>4, <2>1, <2>3 DEF AllDrawn, AllCovered, Covered
<1>7. Holding'
  BY <1>1, <1>3, <1>4, HoldingKept
<1> QED BY <1>1, <1>2, <1>4, <1>5, <1>6, <1>7 DEF VtInv, OutsideStep

\* A CPU that asks for everything to be drawn, and begins to flush.
LEMMA AsksForAll ==
  ASSUME VtInv, NEW c \in Cpus, job[c].pc = "idle", Disturbs(c),
         job' = [job EXCEPT ![c] = [Idle EXCEPT !.pc = "flush"]], UNCHANGED <<display, lock>>,
         Terminal(vt'), vt'.full, vt'.outside = vt.outside
  PROVE  VtInv' /\ OutsideStep
<1> DEFINE j == [Idle EXCEPT !.pc = "flush"]
<1>1. Job(j) /\ j.pc = "flush" /\ job' = [job EXCEPT ![c] = j]
  BY DEF Job, Idle, Pcs
<1> HIDE DEF j
<1>2. Jobs' /\ job'[c] = j /\ (\A d \in Cpus \ {c} : job'[d] = job[d])
      /\ FlushingIn(job') = Flushing \ {c}
  BY <1>1, Before, JobMoves DEF FlushPcs
<1>3. Picture(vt', display', job', behind')
  <2> SUFFICES ASSUME behind' \subseteq {"redraw"}
               PROVE  /\ AllCovered(vt', display') /\ FlushingIn(job') = {}
                      /\ ~(\A d \in Cpus : job'[d].pc \in {"idle", "lock"})
    BY DEF Picture
  <2>1. Flushing \subseteq {c}
    BY Undisturbed
  <2> QED BY <1>1, <1>2, <2>1 DEF AllCovered, Covered
<1>4. Holding'
  BY <1>1, <1>2, HoldingKept
<1>5. Display(display')
  BY Before
<1> QED BY <1>2, <1>3, <1>4, <1>5 DEF VtInv, OutsideStep

\* vt_clear empties the cells and asks for a complete redraw.
LEMMA VtClearInv ==
  ASSUME VtInv, NEW c \in Cpus, VtClear(c)
  PROVE  VtInv' /\ OutsideStep
<1> DEFINE cells == [i \in DOMAIN vt.cells |-> NoChar]
<1>1. /\ job[c].pc = "idle" /\ Disturbs(c)
      /\ job' = [job EXCEPT ![c] = [Idle EXCEPT !.pc = "flush"]] /\ UNCHANGED <<display, lock>>
      /\ vt' = [vt EXCEPT !.x = 0, !.y = 0, !.full = TRUE, !.cells = cells]
  BY DEF VtClear
<1>2. Terminal(vt) /\ Record(vt)
  BY Before DEF Terminal
<1>3. cells = [i \in CellIds |-> cells[i]]
  BY <1>2 DEF Terminal
<1> HIDE DEF cells
<1>4. /\ Record(vt') /\ vt'.cells = cells /\ vt'.x = 0 /\ vt'.y = 0 /\ vt'.start = vt.start
      /\ vt'.end = vt.end /\ vt'.dirty = vt.dirty /\ vt'.full = TRUE /\ vt'.gr = vt.gr
      /\ vt'.outside = vt.outside /\ vt'.font = vt.font
  BY <1>1, <1>2, Zenon DEF Record, Fields
<1>5. 0 \in Rows /\ 0 < VtWidth /\ 0 \in Int
  BY TerminalSizes DEF Rows
<1>6. Terminal(vt')
  <2>1. /\ vt.start \in Starts /\ vt.end \in Int /\ vt.dirty \in BOOLEAN /\ Rendition(vt.gr)
    BY <1>2 DEF Terminal
  <2>2. vt'.cells = [i \in CellIds |-> vt'.cells[i]]
    BY <1>3, <1>4
  <2> QED BY <1>4, <1>5, <2>1, <2>2, Zenon DEF Terminal
<1> QED BY <1>1, <1>4, <1>6, AsksForAll

\* A new font changes every character, and a complete redraw is asked for.
LEMMA FontParseInv ==
  ASSUME VtInv, NEW c \in Cpus, FontParse(c)
  PROVE  VtInv' /\ OutsideStep
<1>1. /\ job[c].pc = "idle" /\ Disturbs(c)
      /\ job' = [job EXCEPT ![c] = [Idle EXCEPT !.pc = "flush"]] /\ UNCHANGED <<display, lock>>
      /\ vt' = [vt EXCEPT !.font = TRUE, !.full = TRUE]
  BY DEF FontParse
<1>2. Terminal(vt) /\ Record(vt)
  BY Before DEF Terminal
<1>3. /\ Record(vt') /\ vt'.cells = vt.cells /\ vt'.x = vt.x /\ vt'.y = vt.y
      /\ vt'.start = vt.start /\ vt'.end = vt.end /\ vt'.dirty = vt.dirty /\ vt'.full = TRUE
      /\ vt'.gr = vt.gr /\ vt'.outside = vt.outside
  BY <1>1, <1>2, Zenon DEF Record, Fields
<1>4. Terminal(vt')
  BY <1>2, <1>3 DEF Terminal
<1> QED BY <1>1, <1>3, <1>4, AsksForAll

\* drm_switch changes the screen, and the history says so.
LEMMA SwitchInv ==
  ASSUME VtInv, Switch
  PROVE  VtInv' /\ OutsideStep
<1>1. PICK n \in Drms : display' = DrmSwitch(display, n)
  BY DEF Switch
<1>2. behind' = behind \cup {"switch"} /\ UNCHANGED <<vt, job, lock>>
  BY DEF Switch
<1>3. Display(display')
  <2> DEFINE d == display
  <2>1. Display(d)
    BY Before
  <2>2. /\ d = [active |-> d.active, screen |-> d.screen, back |-> d.back, outside |-> d.outside]
        /\ display' = [d EXCEPT !.active = n, !.screen = d.back[n]]
    BY <1>1, <2>1 DEF DrmSwitch, Display
  <2> HIDE DEF d
  <2>3. /\ display' = [active |-> n, screen |-> d.back[n], back |-> d.back, outside |-> d.outside]
    BY <2>2
  <2> QED BY <2>1, <2>3 DEF Display
<1>4. Picture(vt', display', job', behind')
  <2>1. "switch" \notin {"redraw"}
    OBVIOUS
  <2> QED BY <1>2, <2>1 DEF Picture
<1>5. Terminal(vt') /\ Jobs' /\ Holding'
  BY <1>2, Before DEF Jobs, Holding
<1> QED BY <1>2, <1>3, <1>4, <1>5 DEF VtInv, OutsideStep

\* Every step keeps the invariant, and writes outside of the cells only after a
\* backspace.
LEMMA VtStepInv ==
  ASSUME VtInv, [Next]_vtVars
  PROVE  VtInv' /\ OutsideStep
<1>1. ASSUME NEW c \in Cpus, Kprintf(c) \/ VtClear(c) \/ FontParse(c) \/ CpuStep(c)
      PROVE  VtInv' /\ OutsideStep
  BY <1>1, KprintfInv, VtClearInv, FontParseInv, LockInv, PutCharInv, UnlockInv, BeginFlushInv,
     FlushAllInv, FlushDirtyInv, EndFlushInv DEF CpuStep
<1>2. CASE Switch
  BY <1>2, SwitchInv
<1>3. CASE UNCHANGED vtVars
  <2>1. display' = display /\ vt' = vt /\ job' = job /\ lock' = lock /\ behind' = behind
    BY <1>3 DEF vtVars
  <2> QED BY <2>1, Before DEF VtInv, Jobs, Holding, OutsideStep
<1> QED BY <1>1, <1>2, <1>3 DEF Next

\* At first the terminal is empty, and so is the screen.
LEMMA VtInitInv ==
  ASSUME Init
  PROVE  VtInv
<1>1. Display(display) /\ display.screen = Blank
  <2>1. 0 \in Drms
    BY Sizes DEF Drms
  <2>2. Buffer(Blank)
    BY DEF Buffer, Blank
  <2>3. /\ display = [active |-> 0, screen |-> Blank, back |-> [n \in Drms |-> Blank], outside |-> {}]
    BY DEF Init, DrmInit
  <2> QED BY <2>1, <2>2, <2>3 DEF Display
<1>2. Terminal(vt) /\ vt.cells = [i \in CellIds |-> NoChar]
  <2>1. Record(vt)
    BY Zenon DEF Init, Record, Fields
  <2>2. Rendition(Plain)
    BY DEF Rendition, Plain, Colors
  <2>3. 0 \in Rows /\ 0 < VtWidth /\ Cells \in Starts /\ 0 \in Int /\ 1 \in Int
    BY TerminalSizes DEF Rows, Starts
  <2>4. /\ vt.cells = [i \in CellIds |-> NoChar] /\ vt.x = 0 /\ vt.y = 0 /\ vt.start = Cells
        /\ vt.end = 1 /\ vt.dirty = FALSE /\ vt.full = FALSE /\ vt.gr = Plain
    BY DEF Init, CellIds
  <2> QED BY <2>1, <2>2, <2>3, <2>4 DEF Terminal
<1>3. Jobs /\ Holding
  BY DEF Init, Jobs, Holding, Job, Idle, Pcs
<1>4. \A i \in CellIds : Drawn(vt, display, i)
  <2> SUFFICES ASSUME NEW i \in CellIds, NEW p \in Cell(CellAt(i))
               PROVE  display.screen[Offset(p)] = CellShade(vt, i)[p]
    BY DEF Drawn
  <2>1. Offset(p) \in Offsets
    BY CellPixels, OffsetsApart DEF CellIds
  <2>2. Blank[Offset(p)] = 0
    BY <2>1 DEF Blank, Black
  <2>3. vt.cells[i].unicode = 0 /\ vt.cells[i].bg = 0
    BY <1>2 DEF NoChar
  <2>4. CellShade(vt, i)[p] = 0
    BY <2>3 DEF CellShade, InColor
  <2> QED BY <1>1, <2>2, <2>4
<1>5. FlushingIn(job) = {}
  BY DEF Init, FlushingIn, Idle, FlushPcs
<1>6. Picture(vt, display, job, behind)
  BY <1>4, <1>5 DEF Picture, AllDrawn, AllCovered, Covered
<1> QED BY <1>1, <1>2, <1>3, <1>6 DEF VtInv

\* The terminal, the display and the jobs fit together in every state.
THEOREM VtInvariant == Spec => []VtInv
<1>1. Init => VtInv
  BY VtInitInv
<1>2. VtInv /\ [Next]_vtVars => VtInv'
  BY VtStepInv
<1> QED BY <1>1, <1>2, PTL DEF Spec

-----------------------------------------------------------------------------
(***************************************************************************)
(* What a reader sees of it.                                               *)
(***************************************************************************)
\* The terminal's state keeps its types.
THEOREM VtTypes == Spec => []TypeOK
<1>1. VtInv => TypeOK
  <2> SUFFICES ASSUME VtInv
               PROVE  TypeOK
    OBVIOUS
  <2>1. DOMAIN display.screen = Offsets /\ display.active \in Drms
    BY Before DEF Display, Buffer
  <2>2. vt.y \in Nat /\ vt.start \in 0 .. Cells /\ vt.gr.fg \in 0 .. 7 /\ vt.gr.bg \in 0 .. 7
    BY Before, TerminalSizes DEF Terminal, Rows, Starts, Rendition, Colors
  <2> QED BY <2>1, <2>2, Before DEF TypeOK, Job, Pcs, Holding
<1> QED BY <1>1, VtInvariant, PTL

\* Whatever is printed, and however flushes of other CPUs come between, the
\* cursor stays left of the last column and above the last row, and nothing is
\* drawn outside of the screen's memory (kprintc, vt_advance_x, vt_advance_y).
THEOREM CursorStaysInside == Spec => []CursorInside
<1>1. VtInv => CursorInside
  BY Before, TerminalSizes DEF CursorInside, Terminal, Display, Rows
<1> QED BY <1>1, VtInvariant, PTL

\* Between two characters, the range of dirty cells holds every cell that the
\* screen does not show as it is (kprintc, vt_flush).
THEOREM RangeCovers == Spec => []DirtyCovers
<1>1. VtInv => DirtyCovers
  <2> SUFFICES ASSUME VtInv, behind = {}, Flushing = {}, display.active = 0, NEW i \in CellIds
               PROVE  Shown(i) \/ vt.full \/ (vt.dirty /\ vt.start <= i /\ i <= LastDirty(vt))
    BY DEF DirtyCovers, CellIds
  <2>1. Covered(vt, display, i)
    BY Before DEF Picture, AllCovered
  <2>2. ASSUME Drawn(vt, display, i)
        PROVE  Shown(i)
    BY <2>2, Before, DrawnShown DEF Shown
  <2> QED BY <2>1, <2>2 DEF Covered
<1> QED BY <1>1, VtInvariant, PTL

\* When no CPU prints, the screen shows what is in the cells, unless flushes of
\* two CPUs overlapped or a drm was switched to (kprint, vt_flush, drm_switch).
THEOREM ScreenIsTrue == Spec => []PictureTrue
<1>1. VtInv => PictureTrue
  <2> SUFFICES ASSUME VtInv, behind = {}, display.active = 0,
                      \A c \in Cpus : job[c].pc \in {"idle", "lock"}, NEW i \in CellIds
               PROVE  Shown(i)
    BY DEF PictureTrue, CellIds
  <2>1. Drawn(vt, display, i)
    BY Before DEF Picture, AllDrawn
  <2> QED BY <2>1, Before, DrawnShown DEF Shown
<1> QED BY <1>1, VtInvariant, PTL

\* Memory beside the cells is written only by a character that follows a
\* backspace in the first cell: scrolling, tabs and line feeds never lead there
\* (kprintc, vt_advance_y).
THEOREM OutsideOnlyAfterBackspace == Spec => OutsideAfterBackspace
<1>1. VtInv /\ [Next]_vtVars => [vt'.outside # vt.outside => At(vt) < 0]_vtVars
  BY VtStepInv DEF OutsideStep
<1> QED BY <1>1, VtInvariant, PTL DEF Spec, OutsideAfterBackspace

-----------------------------------------------------------------------------
(***************************************************************************)
(* Printed numbers.                                                        *)
(***************************************************************************)
\* What the conversions print: digits of these bases, padded only without a
\* sign.
LEMMA ConversionKinds ==
  ASSUME NEW c \in DOMAIN Conversion
  PROVE  LET v == Conversion[c]
         IN  /\ v.base \in {2, 8, 10, 16} /\ v.length \in Nat /\ v.length > 0
             /\ v.unsign \in BOOLEAN /\ v.pad \in BOOLEAN /\ (v.pad => v.unsign)
<1>1. c \in {108, 120, 117, 105, 111, 100}
  BY DEF Conversion
<1>2. CASE c \in {108, 120}
  <2>1. Conversion[c] = [base |-> 16, length |-> 16, unsign |-> TRUE, pad |-> c = 108]
    BY <1>1, <1>2 DEF Conversion
  <2> DEFINE v == Conversion[c]
  <2> HIDE DEF v
  <2>2. v = [base |-> 16, length |-> 16, unsign |-> TRUE, pad |-> c = 108]
    BY <2>1 DEF v
  <2>3. v.base = 16 /\ v.length = 16 /\ v.unsign = TRUE /\ v.pad = (c = 108)
    BY <2>2
  <2>4. v.unsign \in BOOLEAN /\ v.pad \in BOOLEAN /\ (v.pad => v.unsign)
    BY <2>3, Zenon
  <2> QED BY <2>3, <2>4 DEF v
<1>3. CASE c = 117
  <2>1. Conversion[c] = [base |-> 10, length |-> 30, unsign |-> TRUE, pad |-> FALSE]
    BY <1>1, <1>3 DEF Conversion
  <2> QED BY <2>1
<1>4. CASE c = 105
  <2>1. Conversion[c] = [base |-> 10, length |-> 30, unsign |-> FALSE, pad |-> FALSE]
    BY <1>1, <1>4 DEF Conversion
  <2> QED BY <2>1
<1>5. CASE c = 111
  <2>1. Conversion[c] = [base |-> 8, length |-> 32, unsign |-> FALSE, pad |-> FALSE]
    BY <1>1, <1>5 DEF Conversion
  <2> QED BY <2>1
<1>6. CASE c = 100
  <2>1. Conversion[c] = [base |-> 2, length |-> 128, unsign |-> TRUE, pad |-> FALSE]
    BY <1>1, <1>6 DEF Conversion
  <2> QED BY <2>1
<1> QED BY <1>1, <1>2, <1>3, <1>4, <1>5, <1>6

\* A digit is read as its value, and is no sign.
LEMMA DigitValue ==
  ASSUME NEW d \in 0 .. 15
  PROVE  Digit(d) \in Nat /\ Digit(d) # 43 /\ Value(Digit(d)) = d
<1>1. CASE d < 10
  <2>1. Digit(d) = 48 + d
    BY <1>1 DEF Digit
  <2> QED BY <1>1, <2>1 DEF Value
<1>2. CASE d >= 10
  <2>1. Digit(d) = 87 + d
    BY <1>2 DEF Digit
  <2> QED BY <1>2, <2>1 DEF Value
<1> QED BY <1>1, <1>2

\* left is what remains of a number when digits are taken from its end.
Divides(left, n, base, length) ==
  /\ left \in [0 .. length -> Nat] /\ left[0] = n
  /\ \A p \in 1 .. length : left[p] = left[p - 1] \div base

\* ntos takes the digits off a number by division.
LEMMA QuotientsDivide ==
  ASSUME NEW n \in Nat, NEW base \in Nat, base > 0, NEW length \in Nat
  PROVE  Divides(Quotients(n, base, length), n, base, length)
<1> DEFINE F == [z \in (1 .. length) \X Nat |-> z[2] \div base]
           Recurs(f) == f = [p \in 0 .. length |-> IF p = 0 THEN n ELSE f[p - 1] \div base]
           left == CHOOSE f : Recurs(f)
<1>1. Quotients(n, base, length) = left
  BY DEF Quotients
<1>2. \A x \in Nat : x \div base \in Nat
  BY DivMod
<1>3. F \in [(1 .. length) \X Nat -> Nat]
  BY <1>2
<1>4. \A p \in 1 .. length, x \in Nat : F[<<p, x>>] = x \div base
  OBVIOUS
<1> HIDE DEF F
<1>5. PICK g \in [0 .. length -> Nat] : g[0] = n /\ \A p \in 1 .. length : g[p] = F[<<p, g[p - 1]>>]
  <2>1. Iterates(length, Nat, n, F)
    BY <1>3, Iteration
  <2> QED BY <2>1 DEF Iterates
<1>6. \A p \in 1 .. length : g[p] = g[p - 1] \div base
  <2>1. \A p \in 1 .. length : g[p - 1] \in Nat
    BY <1>5
  <2> QED BY <1>4, <1>5, <2>1
<1>7. Recurs(g)
  <2>1. \A p \in 0 .. length : g[p] = IF p = 0 THEN n ELSE g[p - 1] \div base
    <3> TAKE p \in 0 .. length
    <3>1. CASE p = 0
      BY <1>5, <3>1
    <3>2. CASE p # 0
      <4>1. p \in 1 .. length
        BY <3>2
      <4> QED BY <1>6, <3>2, <4>1
    <3> QED BY <3>1, <3>2
  <2> QED BY <1>5, <2>1
<1>8. Recurs(left)
  <2> HIDE DEF Recurs
  <2> QED BY <1>7
<1> HIDE DEF left
<1>9. left = [p \in 0 .. length |-> left[p]]
  BY <1>8
<1>10. \A p \in 0 .. length : left[p] = IF p = 0 THEN n ELSE left[p - 1] \div base
  BY <1>8
<1>11. left[0] = n /\ \A p \in 1 .. length : left[p] = left[p - 1] \div base
  BY <1>10
<1>12. \A p \in 0 .. length : left[p] \in Nat
  <2> DEFINE T == {p \in 0 .. length : left[p] \in Nat}
  <2>1. 0 \in T
    BY <1>11
  <2>2. ASSUME NEW p \in 0 .. length - 1, p \in T
        PROVE  p + 1 \in T
    <3>1. p + 1 \in 1 .. length /\ p + 1 \in 0 .. length /\ (p + 1) - 1 = p
      OBVIOUS
    <3>2. left[p + 1] = left[p] \div base
      BY <1>11, <3>1
    <3> QED BY <1>2, <2>2, <3>1, <3>2
  <2> HIDE DEF T
  <2>3. 0 .. length \subseteq T
    BY <2>1, <2>2, InductionTo
  <2> QED BY <2>3 DEF T
<1> QED BY <1>1, <1>9, <1>11, <1>12 DEF Divides

\* When nothing is left of a number, nothing is left later.
LEMMA NothingLeft ==
  ASSUME NEW left, NEW n \in Nat, NEW base \in Nat, base > 0, NEW length \in Nat,
         Divides(left, n, base, length), NEW m \in 0 .. length, left[m] = 0
  PROVE  \A p \in m .. length : left[p] = 0
<1> DEFINE T == {j \in 0 .. length - m : left[m + j] = 0}
<1>1. 0 \in T
  OBVIOUS
<1>2. ASSUME NEW j \in 0 .. length - m - 1, j \in T
      PROVE  j + 1 \in T
  <2>1. m + (j + 1) \in 1 .. length /\ (m + (j + 1)) - 1 = m + j /\ j + 1 \in 0 .. length - m
    OBVIOUS
  <2>2. left[m + (j + 1)] = left[m + j] \div base
    BY <2>1 DEF Divides
  <2>3. left[m + j] = 0 /\ 0 \div base = 0
    BY <1>2
  <2> QED BY <2>1, <2>2, <2>3
<1> HIDE DEF T
<1>3. length - m \in Nat
  OBVIOUS
<1>4. 0 .. length - m \subseteq T
  BY <1>1, <1>2, <1>3, InductionTo
<1> SUFFICES ASSUME NEW p \in m .. length PROVE left[p] = 0
  OBVIOUS
<1>5. p - m \in T /\ m + (p - m) = p
  BY <1>4
<1> QED BY <1>5 DEF T

\* The digits of a number go on as long as something is left of it.
LEMMA DigitsOf ==
  ASSUME NEW n \in Nat \ {0}, NEW base \in Nat, base > 0, NEW length \in Nat,
         Quotients(n, base, length)[length] = 0
  PROVE  \E m \in 1 .. length :
           /\ Quotients(n, base, length)[m] = 0
           /\ Digits(n, base, length) = [p \in 1 .. m |-> Digit(Quotients(n, base, length)[p - 1] % base)]
<1> DEFINE left == Quotients(n, base, length)
           T == {p \in 0 .. length : left[p] = 0}
           S == {q \in 0 .. length - 1 : left[q] > 0}
<1>1. Divides(left, n, base, length) /\ left[length] = 0
  BY QuotientsDivide
<1>2. Digits(n, base, length) = [p \in 1 .. Cardinality(S) |-> Digit(left[p - 1] % base)]
  BY DEF Digits
<1> HIDE DEF left
<1>3. PICK m \in T : \A p \in T : m <= p
  <2>1. T \in SUBSET Nat /\ T # {}
    BY <1>1
  <2> HIDE DEF T
  <2> QED BY <2>1, LeastNumber
<1>4. m \in 1 .. length /\ left[m] = 0
  BY <1>1 DEF Divides
<1>5. \A p \in m .. length : left[p] = 0
  BY <1>1, <1>4, NothingLeft
<1>6. S = 0 .. m - 1
  <2>1. \A q \in 0 .. length : left[q] \in Nat
    BY <1>1 DEF Divides
  <2>2. \A q \in 0 .. m - 1 : q \in 0 .. length /\ left[q] # 0
    BY <1>3, <1>4
  <2>3. \A q \in 0 .. m - 1 : q \in S
    BY <1>4, <2>1, <2>2
  <2>4. \A q \in S : q \in 0 .. m - 1
    BY <1>4, <1>5
  <2> QED BY <2>3, <2>4
<1>7. Cardinality(S) = m
  <2>1. Cardinality(0 .. m - 1) = m
    BY <1>4, FS_Interval
  <2> QED BY <1>6, <2>1
<1> QED BY <1>2, <1>4, <1>7 DEF left

\* A text begins with a sign or none and goes on with the m last digits of what
\* left is made of, zeroes in front of it included.
Written(text, sign, left, m, base) ==
  /\ sign \in {0, 1}
  /\ Len(text) = sign + m /\ DOMAIN text = 1 .. sign + m
  /\ sign = 1 => text[1] = 43
  /\ \A j \in 1 .. m : text[sign + j] = Digit(left[m - j] % base)

\* What is written so is read back.
LEMMA WrittenReads ==
  ASSUME NEW n \in Nat, NEW base \in 2 .. 16, NEW length \in Nat, NEW left,
         Divides(left, n, base, length), NEW m \in 1 .. length, left[m] = 0,
         NEW sign, NEW text, Written(text, sign, left, m, base)
  PROVE  ReadBack(text, base) = n
<1> DEFINE D(j) == left[m - j] % base
<1>0. sign \in {0, 1}
  BY DEF Written
<1>1. \A j \in 1 .. m : D(j) \in 0 .. 15 /\ D(j) \in Nat
  <2> TAKE j \in 1 .. m
  <2>1. left[m - j] \in Nat
    BY DEF Divides
  <2> QED BY <2>1, DivMod
<1>2. \A j \in 1 .. m : text[sign + j] = Digit(D(j))
  BY DEF Written
<1> HIDE DEF D
<1>3. \A j \in 1 .. m : Value(text[sign + j]) = D(j)
  BY <1>1, <1>2, DigitValue
<1>4. sign = IF text[1] = 43 THEN 1 ELSE 0
  <2>1. CASE sign = 0
    <3>1. text[1] = Digit(D(1)) /\ D(1) \in 0 .. 15
      BY <1>1, <1>2, <2>1
    <3> QED BY <2>1, <3>1, DigitValue
  <2>2. CASE sign = 1
    BY <2>2 DEF Written
  <2> QED BY <1>0, <2>1, <2>2
<1>5. Len(text) - sign = m /\ m \in Nat /\ base \in Nat /\ base > 0
  BY <1>0 DEF Written
<1> DEFINE F == [z \in (1 .. m) \X Nat |-> z[2] * base + Value(text[sign + z[1]])]
           Recurs(f) == f = [i \in 0 .. m |-> IF i = 0 THEN 0
                                              ELSE f[i - 1] * base + Value(text[sign + i])]
           read == CHOOSE f : Recurs(f)
<1>6. ReadBack(text, base) = read[m]
  <2>1. ReadBack(text, base) = ReadDigits(text, base, sign, m)
    BY <1>4, <1>5 DEF ReadBack
  <2> QED BY <2>1 DEF ReadDigits
<1>7. F \in [(1 .. m) \X Nat -> Nat]
  BY <1>1, <1>3
<1>8. \A i \in 1 .. m, x \in Nat : F[<<i, x>>] = x * base + Value(text[sign + i])
  OBVIOUS
<1> HIDE DEF F
<1>9. PICK g \in [0 .. m -> Nat] : g[0] = 0 /\ \A i \in 1 .. m : g[i] = F[<<i, g[i - 1]>>]
  <2>1. Iterates(m, Nat, 0, F)
    <3>1. 0 \in Nat
      OBVIOUS
    <3> QED BY <1>5, <1>7, <3>1, Iteration, Zenon
  <2> QED BY <2>1 DEF Iterates
<1>10. \A i \in 1 .. m : g[i] = g[i - 1] * base + Value(text[sign + i])
  <2>1. \A i \in 1 .. m : g[i - 1] \in Nat
    BY <1>9
  <2> QED BY <1>8, <1>9, <2>1
<1>11. Recurs(g)
  <2>1. \A i \in 0 .. m : g[i] = IF i = 0 THEN 0 ELSE g[i - 1] * base + Value(text[sign + i])
    <3> TAKE i \in 0 .. m
    <3>1. CASE i = 0
      BY <1>9, <3>1
    <3>2. CASE i # 0
      <4>1. i \in 1 .. m
        BY <3>2
      <4> QED BY <1>10, <3>2, <4>1
    <3> QED BY <3>1, <3>2
  <2> QED BY <1>9, <2>1
<1>12. Recurs(read)
  <2> HIDE DEF Recurs
  <2> QED BY <1>11
<1> HIDE DEF read
<1>13. \A i \in 0 .. m : read[i] = IF i = 0 THEN 0 ELSE read[i - 1] * base + Value(text[sign + i])
  BY <1>12
<1>14. read[0] = 0 /\ \A i \in 1 .. m : read[i] = read[i - 1] * base + D(i)
  <2>1. read[0] = 0
    BY <1>5, <1>13
  <2>2. ASSUME NEW i \in 1 .. m
        PROVE  read[i] = read[i - 1] * base + D(i)
    <3>1. i \in 0 .. m /\ i # 0
      OBVIOUS
    <3>2. read[i] = read[i - 1] * base + Value(text[sign + i])
      BY <1>13, <3>1
    <3> QED BY <1>3, <3>2
  <2> QED BY <2>1, <2>2
<1> DEFINE T == {i \in 0 .. m : read[i] = left[m - i]}
<1>15. 0 \in T
  BY <1>14
<1>16. ASSUME NEW i \in 0 .. m - 1, i \in T
       PROVE  i + 1 \in T
  <2>1. i + 1 \in 1 .. m /\ i + 1 \in 0 .. m /\ (i + 1) - 1 = i
    OBVIOUS
  <2> DEFINE k == m - (i + 1)
  <2>2. k \in 0 .. length - 1 /\ k + 1 = m - i /\ k + 1 \in 1 .. length /\ (k + 1) - 1 = k
    OBVIOUS
  <2>3. D(i + 1) = left[k] % base
    BY DEF D
  <2> HIDE DEF k
  <2>4. left[k + 1] = left[k] \div base /\ left[k] \in Nat
    BY <2>2 DEF Divides
  <2>5. left[k] = base * left[k + 1] + D(i + 1) /\ left[k + 1] \in Nat
    <3>1. \A x \in Nat : x = base * (x \div base) + (x % base) /\ x \div base \in Nat
      BY <1>5, DivMod
    <3> QED BY <2>3, <2>4, <3>1
  <2>6. read[i + 1] = read[i] * base + D(i + 1)
    BY <1>14, <2>1
  <2>7. read[i] = left[k + 1]
    BY <1>16, <2>2
  <2>8. left[k + 1] * base = base * left[k + 1]
    BY <2>5
  <2>9. read[i + 1] = left[k]
    BY <2>5, <2>6, <2>7, <2>8
  <2> QED BY <2>1, <2>9 DEF k
<1> HIDE DEF T
<1>17. 0 .. m \subseteq T
  BY <1>5, <1>15, <1>16, InductionTo
<1>18. read[m] = left[0]
  BY <1>17 DEF T
<1> QED BY <1>6, <1>18 DEF Divides

\* A number is printed as its digits, behind a sign or none.
Spelled(n, base, length, unsign, pad) ==
  LET text == Ntos(n, base, length, unsign, pad)
      sign == IF unsign \/ n = 0 THEN 0 ELSE 1
      left == Quotients(n, base, length)
  IN  /\ text \in Seq(Nat)
      /\ \E m \in 1 .. length : left[m] = 0 /\ Written(text, sign, left, m, base)

\* A text is a sequence of characters.
LEMMA TextIs ==
  ASSUME NEW k \in Nat, NEW t, t = [i \in 1 .. k |-> t[i]], \A i \in 1 .. k : t[i] \in Nat
  PROVE  t \in Seq(Nat) /\ Len(t) = k /\ DOMAIN t = 1 .. k
OBVIOUS

\* The text of a number has its sign in front, if it is positive and the
\* conversion has signs, and then its digits (ntos).
LEMMA NtosWritten ==
  ASSUME NEW n \in Nat, NEW base \in 2 .. 16, NEW length \in Nat, length > 0,
         NEW unsign \in BOOLEAN, NEW pad \in BOOLEAN, pad => unsign,
         Quotients(n, base, length)[length] = 0
  PROVE  Spelled(n, base, length, unsign, pad)
<1> DEFINE left == Quotients(n, base, length)
           text == Ntos(n, base, length, unsign, pad)
           sign == IF unsign \/ n = 0 THEN 0 ELSE 1
           digits == Digits(n, base, length)
<1>1. Divides(left, n, base, length) /\ left[length] = 0
  BY QuotientsDivide
<1>2. \A x \in Nat : x % base \in 0 .. 15 /\ Digit(x % base) \in Nat
  <2> TAKE x \in Nat
  <2>1. x % base \in 0 .. 15
    BY DivMod
  <2> QED BY <2>1, DigitValue
<1>3. \A p \in 0 .. length : left[p] \in Nat
  BY <1>1 DEF Divides
<1>4. Digit(0 % base) = 48
  BY DEF Digit
<1> HIDE DEF left
<1>5. ASSUME n = 0
      PROVE  text \in Seq(Nat) /\ \E m \in 1 .. length : left[m] = 0 /\ Written(text, 0, left, m, base)
  <2>1. \A p \in 0 .. length : left[p] = 0
    <3>1. left[0] = 0 /\ 0 \in 0 .. length
      BY <1>1, <1>5 DEF Divides
    <3> QED BY <1>1, <3>1, NothingLeft
  <2>2. PICK m \in {1, length} : text = [i \in 1 .. m |-> 48]
    <3>1. CASE pad
      <4>1. text = [i \in 1 .. length |-> 48]
        BY <1>5, <3>1 DEF Ntos, Zeroes
      <4> QED BY <4>1
    <3>2. CASE ~pad
      <4>1. text = <<48>>
        BY <1>5, <3>2 DEF Ntos
      <4>2. <<48>> = [i \in 1 .. 1 |-> 48]
        OBVIOUS
      <4> QED BY <4>1, <4>2
    <3> QED BY <3>1, <3>2
  <2>3. m \in 1 .. length /\ m \in Nat
    BY <2>2
  <2> HIDE DEF text
  <2>4. text \in Seq(Nat) /\ Len(text) = m /\ DOMAIN text = 1 .. m /\ \A j \in 1 .. m : text[j] = 48
    BY <2>2, <2>3
  <2>5. \A j \in 1 .. m : m - j \in 0 .. length /\ 0 + j = j
    BY <2>3
  <2>6. Written(text, 0, left, m, base)
    BY <1>4, <2>1, <2>3, <2>4, <2>5 DEF Written
  <2> QED BY <2>1, <2>3, <2>4, <2>6
<1>6. ASSUME n # 0
      PROVE  text \in Seq(Nat) /\ \E m \in 1 .. length : left[m] = 0 /\ Written(text, sign, left, m, base)
  <2>1. PICK c \in 1 .. length : left[c] = 0 /\ digits = [p \in 1 .. c |-> Digit(left[p - 1] % base)]
    BY <1>1, <1>6, DigitsOf DEF left
  <2>2. \A p \in 1 .. c : p - 1 \in 0 .. length /\ c \in Nat
    BY <2>1
  <2>3. digits \in Seq(Nat) /\ Len(digits) = c
    <3>1. \A p \in 1 .. c : Digit(left[p - 1] % base) \in Nat
      BY <1>2, <1>3, <2>2
    <3> HIDE DEF digits
    <3> QED BY <2>1, <2>2, <3>1
  <2>4. ~(n < 0)
    OBVIOUS
  <2>5. CASE ~pad
    <3> DEFINE plus == IF unsign THEN <<>> ELSE <<43>>
               rest == digits \o plus
    <3>1. text = Reverse(rest)
      BY <1>6, <2>4, <2>5 DEF Ntos
    <3>2. plus \in Seq(Nat) /\ Len(plus) = sign /\ (sign = 1 => plus[1] = 43) /\ sign \in {0, 1}
      BY <1>6
    <3> HIDE DEF plus, digits, sign
    <3>3. /\ rest \in Seq(Nat) /\ Len(rest) = c + sign
          /\ \A i \in 1 .. c + sign : rest[i] = IF i <= c THEN digits[i] ELSE plus[i - c]
      BY <2>3, <3>2, ConcatProperties
    <3> HIDE DEF rest, text
    <3>4. /\ text = [i \in 1 .. c + sign |-> text[i]]
          /\ \A i \in 1 .. c + sign : text[i] = rest[(c + sign - i) + 1]
      <4> DEFINE k == Len(rest)
      <4>1. text = [i \in 1 .. k |-> rest[(k - i) + 1]]
        BY <3>1 DEF Reverse
      <4>2. k = c + sign
        BY <3>3
      <4> HIDE DEF k
      <4>3. text = [i \in 1 .. k |-> text[i]]
        BY <4>1
      <4>4. \A i \in 1 .. k : text[i] = rest[(k - i) + 1]
        BY <4>1
      <4>5. text = [i \in 1 .. c + sign |-> text[i]]
        BY <4>2, <4>3, Zenon
      <4>6. \A i \in 1 .. c + sign : text[i] = rest[(c + sign - i) + 1]
        <5>1. \A i \in 1 .. c + sign : i \in 1 .. k /\ (k - i) + 1 = (c + sign - i) + 1
          BY <2>2, <3>2, <4>2
        <5> QED BY <4>4, <5>1
      <4> QED BY <4>5, <4>6
    <3>5. \A i \in 1 .. c + sign : (c + sign - i) + 1 \in 1 .. c + sign /\ rest[(c + sign - i) + 1] \in Nat
      BY <2>2, <3>2, <3>3
    <3>6. c + sign \in Nat /\ sign + c = c + sign
      BY <2>1, <3>2
    <3>7. text \in Seq(Nat) /\ Len(text) = sign + c /\ DOMAIN text = 1 .. sign + c
      <4>1. \A i \in 1 .. c + sign : text[i] \in Nat
        BY <3>4, <3>5
      <4> DEFINE k == c + sign
      <4>2. k \in Nat /\ text = [i \in 1 .. k |-> text[i]] /\ \A i \in 1 .. k : text[i] \in Nat
        BY <3>4, <3>6, <4>1
      <4> HIDE DEF k
      <4>3. text \in Seq(Nat) /\ Len(text) = k /\ DOMAIN text = 1 .. k
        BY <4>2, TextIs
      <4> QED BY <3>6, <4>3 DEF k
    <3>8. sign = 1 => text[1] = 43
      <4> SUFFICES ASSUME sign = 1 PROVE text[1] = 43
        OBVIOUS
      <4>1. /\ 1 \in 1 .. c + sign /\ (c + sign - 1) + 1 = c + 1
            /\ c + 1 \in 1 .. c + sign /\ ~(c + 1 <= c) /\ (c + 1) - c = 1
        BY <2>1
      <4>2. text[1] = rest[c + 1]
        BY <3>4, <4>1
      <4>3. rest[c + 1] = plus[(c + 1) - c]
        BY <3>3, <4>1
      <4> QED BY <3>2, <4>1, <4>2, <4>3
    <3>9. \A j \in 1 .. c : text[sign + j] = Digit(left[c - j] % base)
      <4> TAKE j \in 1 .. c
      <4>1. /\ sign + j \in 1 .. c + sign /\ (c + sign - (sign + j)) + 1 = c - j + 1
            /\ c - j + 1 \in 1 .. c /\ (c - j + 1) - 1 = c - j
        BY <2>1, <3>2
      <4>2. text[sign + j] = rest[c - j + 1]
        BY <3>4, <4>1
      <4>3. rest[c - j + 1] = digits[c - j + 1]
        BY <2>1, <3>2, <3>3, <4>1
      <4>4. digits[c - j + 1] = Digit(left[c - j] % base)
        BY <2>1, <4>1
      <4> QED BY <4>2, <4>3, <4>4
    <3>10. Written(text, sign, left, c, base)
      BY <3>2, <3>7, <3>8, <3>9 DEF Written
    <3> QED BY <2>1, <3>7, <3>10
  <2>6. CASE pad
    <3> DEFINE zeroes == Zeroes(length - c)
               rest == digits \o zeroes
    <3>1. text = Reverse(rest)
      <4>1. unsign = TRUE
        BY <2>6
      <4>2. digits \o <<>> = digits
        BY <2>3, ConcatEmptySeq
      <4> HIDE DEF digits
      <4>3. text = Reverse((digits \o <<>>) \o Zeroes(length - Len(digits \o <<>>)))
        BY <1>6, <2>4, <2>6, <4>1 DEF Ntos, digits
      <4> QED BY <2>3, <4>2, <4>3
    <3>2. sign = 0 /\ length - c \in Nat /\ c \in Nat
      BY <2>6
    <3>3. zeroes \in Seq(Nat) /\ Len(zeroes) = length - c /\ \A i \in 1 .. length - c : zeroes[i] = 48
      BY <3>2 DEF Zeroes
    <3> HIDE DEF zeroes, digits, sign
    <3>4. /\ rest \in Seq(Nat) /\ Len(rest) = c + (length - c)
          /\ \A i \in 1 .. c + (length - c) : rest[i] = IF i <= c THEN digits[i] ELSE zeroes[i - c]
      <4>1. /\ rest \in Seq(Nat) /\ Len(rest) = Len(digits) + Len(zeroes)
            /\ \A i \in 1 .. Len(digits) + Len(zeroes) :
                 rest[i] = IF i <= Len(digits) THEN digits[i] ELSE zeroes[i - Len(digits)]
        <5>1. digits \in Seq(Nat) /\ zeroes \in Seq(Nat)
          BY <2>3, <3>3, Zenon
        <5> HIDE DEF rest
        <5>2. rest = digits \o zeroes
          BY Zenon DEF rest
        <5>3. /\ digits \o zeroes \in Seq(Nat) /\ Len(digits \o zeroes) = Len(digits) + Len(zeroes)
              /\ \A i \in 1 .. Len(digits) + Len(zeroes) :
                   (digits \o zeroes)[i] = IF i <= Len(digits) THEN digits[i] ELSE zeroes[i - Len(digits)]
          BY <5>1, ConcatProperties, Zenon
        <5> QED BY <5>2, <5>3, Zenon
      <4>2. Len(digits) = c /\ Len(zeroes) = length - c
        BY <2>3, <3>3
      <4> HIDE DEF rest
      <4> QED BY <4>1, <4>2
    <3>5. c + (length - c) = length
      BY <3>2
    <3> HIDE DEF rest, text
    <3>6. \A p \in 1 .. length : rest[p] = Digit(left[p - 1] % base)
      <4> TAKE p \in 1 .. length
      <4>1. CASE p <= c
        <5>1. rest[p] = digits[p] /\ p \in 1 .. c
          BY <3>2, <3>4, <3>5, <4>1
        <5> QED BY <2>1, <5>1
      <4>2. CASE p > c
        <5>1. rest[p] = 48
          <6>1. p - c \in 1 .. length - c /\ ~(p <= c)
            BY <3>2, <4>2
          <6>2. rest[p] = zeroes[p - c]
            BY <3>4, <3>5, <6>1
          <6> QED BY <3>3, <6>1, <6>2
        <5>2. left[p - 1] = 0
          <6>1. p - 1 \in c .. length /\ c \in 0 .. length
            BY <3>2, <4>2
          <6> QED BY <1>1, <2>1, <6>1, NothingLeft
        <5> QED BY <1>4, <5>1, <5>2
      <4> QED BY <3>2, <4>1, <4>2
    <3>7. text = [i \in 1 .. length |-> rest[(length - i) + 1]]
      BY <3>1, <3>4, <3>5 DEF Reverse
    <3>8. \A i \in 1 .. length : (length - i) + 1 \in 1 .. length /\ rest[(length - i) + 1] \in Nat
      BY <3>4, <3>5
    <3>9. text \in Seq(Nat) /\ Len(text) = length /\ DOMAIN text = 1 .. length
      BY <3>7, <3>8
    <3>10. \A j \in 1 .. length : text[j] = Digit(left[length - j] % base)
      <4> TAKE j \in 1 .. length
      <4>1. (length - j) + 1 \in 1 .. length /\ ((length - j) + 1) - 1 = length - j
        OBVIOUS
      <4> QED BY <3>6, <3>7, <4>1
    <3>11. Written(text, 0, left, length, base)
      <4>1. 0 + length = length /\ \A j \in 1 .. length : 0 + j = j
        OBVIOUS
      <4> QED BY <3>9, <3>10, <4>1 DEF Written
    <3>12. length \in 1 .. length
      OBVIOUS
    <3> QED BY <1>1, <3>2, <3>9, <3>11, <3>12
  <2> QED BY <2>5, <2>6
<1> HIDE DEF text
<1>7. text \in Seq(Nat) /\ \E m \in 1 .. length : left[m] = 0 /\ Written(text, sign, left, m, base)
  BY <1>5, <1>6
<1> QED BY <1>7, Zenon DEF Spelled, left, text, sign

\* A format of one conversion prints the number and nothing else (kvfprintf).
LEMMA NumberPrinted ==
  ASSUME NEW call, call.fmt \in Seq(Nat), PrintsNumber(call),
         call.args \in Seq(Int) \ {<<>>},
         NEW v, v = Conversion[call.fmt[2]],
         NEW text, text = Ntos(call.args[1], v.base, v.length, v.unsign, v.pad), text \in Seq(Nat)
  PROVE  Kvfprintf(call.fmt, call.args).out = text
<1> DEFINE fmt == call.fmt
           s0 == [out |-> <<>>, format |-> FALSE, args |-> call.args, room |-> 16]
           s1 == [out |-> <<>>, format |-> TRUE, args |-> call.args, room |-> 16]
           s2 == Step(s1, fmt[2])
           Recurs(f) == f = [i \in 0 .. Len(fmt) |-> IF i = 0 THEN s0 ELSE Step(f[i - 1], fmt[i])]
           after == CHOOSE f : Recurs(f)
<1>1. Len(fmt) = 2 /\ fmt[1] = 37 /\ fmt[2] \in DOMAIN Conversion
  BY DEF PrintsNumber
<1>2. Kvfprintf(fmt, call.args) = after[2]
  BY <1>1 DEF Kvfprintf
<1>3. Step(s0, 37) = s1
  <2>1. s0.format = FALSE
    OBVIOUS
  <2>2. Step(s0, 37) = [s0 EXCEPT !.format = TRUE]
    BY <2>1 DEF Step
  <2> QED BY <2>2
<1>4. s2.out = text
  <2>1. Head(call.args) = call.args[1]
    OBVIOUS
  <2>2. s1.out = <<>> /\ s1.format = TRUE /\ s1.args = call.args
    OBVIOUS
  <2>3. <<>> \o text = text
    BY ConcatEmptySeq
  <2> HIDE DEF s1
  <2>4. fmt[2] \in DOMAIN Conversion /\ "out" \in DOMAIN s1
    BY <1>1 DEF s1
  <2>5. s2 = [s1 EXCEPT !.out = @ \o text, !.args = Tail(@), !.format = FALSE,
                        !.room = StringOp(@, Len(s1.out) + Len(text))]
    BY <2>1, <2>2, <2>4 DEF Step
  <2> QED BY <2>2, <2>3, <2>4, <2>5 DEF s1
<1> HIDE DEF fmt, s0, s1, s2
<1>5. \E f : Recurs(f)
  <2> DEFINE g == [i \in 0 .. 2 |-> IF i = 0 THEN s0 ELSE IF i = 1 THEN s1 ELSE s2]
             h == [i \in 0 .. 2 |-> IF i = 0 THEN s0 ELSE Step(g[i - 1], fmt[i])]
  <2>1. g[0] = s0 /\ g[1] = s1 /\ g[2] = s2
    OBVIOUS
  <2>2. h[0] = s0 /\ h[1] = Step(g[0], fmt[1]) /\ h[2] = Step(g[1], fmt[2])
    OBVIOUS
  <2>3. h[1] = s1 /\ h[2] = s2
    BY <1>1, <1>3, <2>1, <2>2 DEF s2
  <2>4. \A i \in 0 .. 2 : g[i] = h[i]
    <3>1. 0 .. 2 = {0, 1, 2}
      OBVIOUS
    <3> HIDE DEF g, h
    <3> QED BY <2>1, <2>2, <2>3, <3>1
  <2>5. g = [i \in 0 .. 2 |-> g[i]] /\ h = [i \in 0 .. 2 |-> h[i]]
    OBVIOUS
  <2>6. g = h
    <3> HIDE DEF g, h
    <3> QED BY <2>4, <2>5
  <2>7. Recurs(g)
    BY <1>1, <2>6
  <2> HIDE DEF Recurs
  <2> QED BY <2>7
<1>6. Recurs(after)
  <2> HIDE DEF Recurs
  <2> QED BY <1>5
<1> HIDE DEF after
<1>7. \A i \in 0 .. 2 : after[i] = IF i = 0 THEN s0 ELSE Step(after[i - 1], fmt[i])
  BY <1>1, <1>6
<1>8. after[0] = s0
  BY <1>7
<1>9. after[1] = s1
  BY <1>1, <1>3, <1>7, <1>8
<1>10. after[2] = s2
  BY <1>7, <1>9 DEF s2
<1> QED BY <1>2, <1>4, <1>10 DEF fmt

\* A number that fits is printed so that it is read back.
LEMMA NumberReads ==
  ASSUME NEW call \in Calls, PrintsNumber(call), call.args[1] >= 0
  PROVE  LET v == Conversion[call.fmt[2]]
             text == Kvfprintf(call.fmt, call.args).out
         IN  /\ ReadBack(text, v.base) = call.args[1]
             /\ v.unsign \/ call.args[1] = 0 \/ text[1] = 43
<1> DEFINE v == Conversion[call.fmt[2]]
           n == call.args[1]
           left == Quotients(n, v.base, v.length)
           text == Ntos(n, v.base, v.length, v.unsign, v.pad)
           sign == IF v.unsign \/ n = 0 THEN 0 ELSE 1
<1>1. /\ call.fmt \in Seq(Nat) /\ call.args \in Seq(Int) \ {<<>>}
      /\ left[v.length] = 0
  BY NumbersAssumption
<1>2. n \in Nat
  BY <1>1
<1>3. /\ v.base \in {2, 8, 10, 16} /\ v.length \in Nat /\ v.length > 0
      /\ v.unsign \in BOOLEAN /\ v.pad \in BOOLEAN /\ (v.pad => v.unsign)
  BY ConversionKinds DEF PrintsNumber
<1>4. v.base \in 2 .. 16 /\ v.base \in Nat /\ v.base > 0
  BY <1>3
<1> HIDE DEF v
<1>5. text \in Seq(Nat) /\ \E m \in 1 .. v.length : left[m] = 0 /\ Written(text, sign, left, m, v.base)
  <2>1. Quotients(n, v.base, v.length)[v.length] = 0
    BY <1>1
  <2> HIDE DEF n
  <2>2. Spelled(n, v.base, v.length, v.unsign, v.pad)
    BY <1>2, <1>3, <1>4, <2>1, NtosWritten
  <2> QED BY <2>2, Zenon DEF Spelled, left, text, sign, n
<1>6. Divides(left, n, v.base, v.length)
  BY <1>2, <1>3, <1>4, QuotientsDivide
<1> HIDE DEF text, left
<1>7. PICK m \in 1 .. v.length : left[m] = 0 /\ Written(text, sign, left, m, v.base)
  BY <1>5
<1>8. ReadBack(text, v.base) = n
  <2> DEFINE base == v.base
             length == v.length
  <2>1. base \in 2 .. 16 /\ length \in Nat
    BY <1>3, <1>4
  <2> HIDE DEF sign, n
  <2>2. /\ Divides(left, n, base, length) /\ m \in 1 .. length /\ left[m] = 0
        /\ Written(text, sign, left, m, base)
    BY <1>6, <1>7
  <2> HIDE DEF base, length
  <2>3. ReadBack(text, base) = n
    BY <1>2, <2>1, <2>2, WrittenReads
  <2> QED BY <2>3 DEF base
<1>9. v.unsign \/ n = 0 \/ text[1] = 43
  BY <1>7 DEF Written
<1>10. Kvfprintf(call.fmt, call.args).out = text
  BY <1>1, <1>5, NumberPrinted DEF v, text
<1> QED BY <1>8, <1>9, <1>10 DEF v

\* A caller that waits for the lock has the text of its call.
TextTrue ==
  \A c \in Cpus : job[c].pc = "lock" =>
    job[c].call \in Calls /\ job[c].text = Kvfprintf(job[c].call.fmt, job[c].call.args).out

\* Only kprintf comes to the lock.
LEMMA TextStays ==
  ASSUME VtInv, TextTrue, [Next]_vtVars
  PROVE  TextTrue'
<1>1. ASSUME UNCHANGED job
      PROVE  TextTrue'
  BY <1>1 DEF TextTrue
<1>2. ASSUME NEW c \in Cpus, NEW j, job' = [job EXCEPT ![c] = j],
             j.pc = "lock" => j.call \in Calls /\ j.text = Kvfprintf(j.call.fmt, j.call.args).out
      PROVE  TextTrue'
  <2>1. job'[c] = j /\ \A d \in Cpus \ {c} : job'[d] = job[d]
    BY <1>2, Before DEF Jobs
  <2> QED BY <1>2, <2>1 DEF TextTrue
<1>3. ASSUME NEW c \in Cpus, Kprintf(c)
      PROVE  TextTrue'
  <2>1. PICK call \in Calls :
          job' = [job EXCEPT ![c] = [pc |-> "lock", call |-> call, i |-> 0,
                                     text |-> Kvfprintf(call.fmt, call.args).out]]
    BY <1>3 DEF Kprintf
  <2> DEFINE j == [pc |-> "lock", call |-> call, i |-> 0, text |-> Kvfprintf(call.fmt, call.args).out]
  <2>2. j.call \in Calls /\ j.text = Kvfprintf(j.call.fmt, j.call.args).out
    OBVIOUS
  <2>3. job' = [job EXCEPT ![c] = j]
    BY <2>1
  <2> HIDE DEF j
  <2> QED BY <1>2, <2>2, <2>3
<1>4. ASSUME NEW c \in Cpus, VtClear(c) \/ FontParse(c) \/ EndFlush(c)
      PROVE  TextTrue'
  <2>1. \E j : job' = [job EXCEPT ![c] = j] /\ j.pc # "lock"
    <3>1. CASE VtClear(c) \/ FontParse(c)
      <4> DEFINE j == [Idle EXCEPT !.pc = "flush"]
      <4>1. j.pc # "lock"
        BY DEF Idle
      <4>2. job' = [job EXCEPT ![c] = j]
        BY <3>1 DEF VtClear, FontParse
      <4> HIDE DEF j
      <4> QED BY <4>1, <4>2
    <3>2. CASE EndFlush(c)
      <4>1. Idle.pc # "lock" /\ job' = [job EXCEPT ![c] = Idle]
        BY <3>2 DEF EndFlush, Idle
      <4> HIDE DEF Idle
      <4> QED BY <4>1
    <3> QED BY <1>4, <3>1, <3>2
  <2> QED BY <1>2, <2>1
<1>5. ASSUME NEW c \in Cpus, Lock(c) \/ PutChar(c) \/ Unlock(c) \/ BeginFlush(c)
                             \/ FlushAll(c) \/ FlushDirty(c)
      PROVE  TextTrue'
  <2>1. Job(job[c]) /\ job = [d \in Cpus |-> job[d]]
    BY Before DEF Jobs
  <2>2. job[c].pc # "lock" \/ Lock(c)
    BY <1>5 DEF PutChar, Unlock, BeginFlush, FlushAll, FlushDirty
  <2>3. \E j : job' = [job EXCEPT ![c] = j] /\ j.pc # "lock"
    <3>1. ASSUME NEW pc, pc # "lock", NEW i, job' = [job EXCEPT ![c].pc = pc, ![c].i = i]
          PROVE  \E j : job' = [job EXCEPT ![c] = j] /\ j.pc # "lock"
      <4> DEFINE j == [job[c] EXCEPT !.pc = pc, !.i = i]
      <4>1. j.pc # "lock"
        BY <2>1, <3>1 DEF Job
      <4>2. job' = [job EXCEPT ![c] = j]
        BY <2>1, <3>1
      <4> QED BY <4>1, <4>2
    <3>2. ASSUME NEW pc, pc # "lock", JobTo(c, pc)
          PROVE  \E j : job' = [job EXCEPT ![c] = j] /\ j.pc # "lock"
      <4> DEFINE j == [job[c] EXCEPT !.pc = pc]
      <4>1. j.pc # "lock"
        BY <2>1, <3>2 DEF Job
      <4>2. job' = [job EXCEPT ![c] = j]
        BY <2>1, <3>2 DEF JobTo
      <4> QED BY <4>1, <4>2
    <3>3. ASSUME job[c].pc # "lock", job' = [job EXCEPT ![c].i = @ + 1]
          PROVE  \E j : job' = [job EXCEPT ![c] = j] /\ j.pc # "lock"
      <4> DEFINE j == [job[c] EXCEPT !.i = @ + 1]
      <4>1. j.pc # "lock"
        BY <2>1, <3>3 DEF Job
      <4>2. job' = [job EXCEPT ![c] = j]
        BY <2>1, <3>3
      <4> QED BY <4>1, <4>2
    <3>4. CASE Lock(c) \/ Unlock(c)
      BY <3>2, <3>4 DEF Lock, Unlock
    <3>5. CASE PutChar(c)
      BY <2>2, <3>3, <3>5 DEF PutChar, Lock
    <3>6. CASE BeginFlush(c)
      <4>1. CASE vt.full
        BY <3>1, <3>6, <4>1 DEF BeginFlush
      <4>2. CASE ~vt.full
        <5>1. (IF vt.dirty THEN "dirty" ELSE "reset") # "lock"
          OBVIOUS
        <5>2. job' = [job EXCEPT ![c].pc = IF vt.dirty THEN "dirty" ELSE "reset", ![c].i = vt.start]
          BY <3>6, <4>2 DEF BeginFlush
        <5> QED BY <3>1, <5>1, <5>2
      <4> QED BY <4>1, <4>2
    <3>7. CASE FlushAll(c) \/ FlushDirty(c)
      BY <2>2, <3>2, <3>3, <3>7 DEF FlushAll, FlushDirty, Lock
    <3> QED BY <1>5, <3>4, <3>5, <3>6, <3>7
  <2> QED BY <1>2, <2>3
<1>6. CASE Switch \/ UNCHANGED vtVars
  BY <1>1, <1>6 DEF Switch, vtVars
<1> QED BY <1>3, <1>4, <1>5, <1>6 DEF Next, CpuStep

\* Whatever base a number is printed in, padded or not, and whatever other CPUs
\* do in the meantime, its text reads back as that number, and that of a positive
\* signed number begins with a plus sign (kvfprintf, ntos).
THEOREM NumbersReadBackInv == Spec => []NumbersReadBack
<1>1. Init => TextTrue
  BY DEF Init, TextTrue, Idle
<1>2. VtInv /\ TextTrue /\ [Next]_vtVars => TextTrue'
  BY TextStays
<1>3. TextTrue => NumbersReadBack
  <2> SUFFICES ASSUME TextTrue, NEW c \in Cpus, job[c].pc = "lock",
                      PrintsNumber(job[c].call), job[c].call.args[1] >= 0
               PROVE  LET v == Conversion[job[c].call.fmt[2]]
                      IN  /\ ReadBack(job[c].text, v.base) = job[c].call.args[1]
                          /\ v.unsign \/ job[c].call.args[1] = 0 \/ job[c].text[1] = 43
    BY DEF NumbersReadBack
  <2> DEFINE call == job[c].call
  <2>1. call \in Calls /\ job[c].text = Kvfprintf(call.fmt, call.args).out
    BY DEF TextTrue
  <2> HIDE DEF call
  <2>2. PrintsNumber(call) /\ call.args[1] >= 0
    BY DEF call
  <2> QED BY <2>1, <2>2, NumberReads DEF call
<1> QED BY <1>1, <1>2, <1>3, VtInvariant, PTL DEF Spec
=============================================================================
