--------------------------------- MODULE Vt ---------------------------------
(***************************************************************************)
(* The terminal, kernel/src/gfx/vt: the cells of vt.c, their colors        *)
(* (ansi.c), the range of cells that are not drawn yet, and kprintf, which *)
(* formats a text and prints it.  kprint holds the terminal's lock while   *)
(* it takes the characters one by one, and drops it before the last flush: *)
(* that flush, cell by cell, runs against whatever other CPUs print.       *)
(*                                                                         *)
(* A flush under the lock is one step with the character it belongs to.    *)
(* Columns and positions are unsigned in the code: a negative number here  *)
(* stands for one near 2^64.  _state.working stays FALSE, so ansi_process  *)
(* is never reached, and no code sets DRM_ATTACHED_TO_PROCESS.             *)
(***************************************************************************)
EXTENDS Drm, Format

CONSTANTS Cpus,
          Calls,       \* the calls of kprintf: a format and its arguments
          ScrollStep,  \* CONFIG_SCROLL_STEP: 4
          MaxPrints,   \* bound: calls of kprintf
          MaxSwitches, \* bound: calls of drm_switch and vt_clear
          NoOne

VARIABLES vt,     \* the terminal, with g_8x16_font: whether there is a font
          job,    \* CPU -> its kprintf
          lock,   \* _vt_lock: its holder
          count,  \* calls so far
          behind  \* history: why the screen may not show what is in the cells

vtVars == <<display, vt, job, lock, count, behind>>

VtWidth == Width \div CharWidth
VtHeight == Height \div CharHeight
Cells == VtWidth * VtHeight

\* There is room for a character, and a scroll leaves the screen at most empty.
ASSUME ScrollAssumption == VtWidth > 0 /\ ScrollStep \in 1 .. VtHeight

ASSUME NobodyAssumption == NoOne \notin Cpus

\* A call that prints one number and nothing else.
PrintsNumber(call) == Len(call.fmt) = 2 /\ call.fmt[1] = 37 /\ call.fmt[2] \in DOMAIN Conversion

\* There is room for the digits of every number of 64 bits.
ASSUME NumbersAssumption ==
  \A call \in Calls :
    /\ call.fmt \in Seq(Nat)
    /\ PrintsNumber(call) =>
         LET v == Conversion[call.fmt[2]]
         IN  /\ call.args \in Seq(Int) \ {<<>>}
             /\ call.args[1] >= 0 => Quotients(call.args[1], v.base, v.length)[v.length] = 0

BEL == 7
BS == 8
HT == 9
LF == 10
CR == 13

\* Unsigned numbers, of which the negative ones are the largest.
Below(a, b) == IF (a < 0) = (b < 0) THEN a < b ELSE b < 0
Lesser(a, b) == IF Below(a, b) THEN a ELSE b
Greater(a, b) == IF Below(a, b) THEN b ELSE a

-----------------------------------------------------------------------------
(***************************************************************************)
(* Colors.                                                                 *)
(***************************************************************************)
NormalColors == <<\h000000, \hd32f2f, \hafb42b, \hfbc02d, \h512da8, \h7b1fa2, \hfbc02d, \heeeeee>>
DimColors    == <<\h000000, \hb71c1c, \h827717, \hf57f17, \h311b92, \h4a148c, \hf57f17, \h9e9e9e>>
BrightColors == <<\h7f7f7f, \hf44336, \hcddc39, \hffeb3b, \h673ab7, \h8e24aa, \hffeb3b, \hffffff>>

Plain == [bold |-> FALSE, dim |-> FALSE, reverse |-> FALSE, fg |-> 7, bg |-> 0]

Foreground(gr) == IF gr.bold THEN BrightColors[gr.fg + 1]
                  ELSE IF gr.dim THEN DimColors[gr.fg + 1] ELSE NormalColors[gr.fg + 1]
Background(gr) == NormalColors[gr.bg + 1]

AnsiConvertFg(gr) == IF gr.reverse THEN Background(gr) ELSE Foreground(gr)
AnsiConvertBg(gr) == IF gr.reverse THEN Foreground(gr) ELSE Background(gr)

\* The code after a BEL.
Termcode(gr, c) ==
  CASE c = 1 -> Plain
    [] c = 2 -> [gr EXCEPT !.dim = TRUE]
    [] c = 3 -> [gr EXCEPT !.bold = TRUE]
    [] c = 4 -> [gr EXCEPT !.reverse = TRUE]
    [] c = 5 -> [gr EXCEPT !.dim = FALSE]
    [] c = 6 -> [gr EXCEPT !.bold = FALSE]
    [] c = 7 -> [gr EXCEPT !.reverse = FALSE]
    [] c \in 17 .. 24 -> [gr EXCEPT !.fg = c - 17]
    [] c \in 33 .. 40 -> [gr EXCEPT !.bg = c - 33]
    [] OTHER -> gr

-----------------------------------------------------------------------------
(***************************************************************************)
(* Drawing.  An operator takes and returns a pair: the terminal as t, the  *)
(* display as d.                                                           *)
(***************************************************************************)
NoChar == [unicode |-> 0, fg |-> 0, bg |-> 0]

CellAt(i) == <<CharWidth * (i % VtWidth), CharHeight * (i \div VtWidth)>>

CellOf(p) == VtWidth * (p[2] \div CharHeight) + p[1] \div CharWidth

CellShade(t, i) ==
  LET c == t.cells[i]
  IN  IF c.unicode # 0 THEN DrmPlotCharSolid(t.font, CellAt(i), c.unicode, c.fg, c.bg)
                       ELSE InColor(Cell(CellAt(i)), c.bg)

VtDrawChar(t, d, i) == Paint(d, 0, CellShade(t, i))

DrawCells(t, d, from, to) ==
  LET shades == [i \in from .. to |-> CellShade(t, i)]
  IN  Paint(d, 0, [p \in UNION {DOMAIN shades[i] : i \in from .. to} |-> shades[CellOf(p)][p]])

ResetRange(t) == [t EXCEPT !.start = Cells, !.end = 1]

LastDirty(t) == IF Below(t.end, Cells) THEN t.end ELSE Cells - 1

VtFlush(s) ==
  IF s.t.full
    THEN [t |-> ResetRange([s.t EXCEPT !.full = FALSE, !.dirty = FALSE]),
          d |-> DrawCells(s.t, DrmClear(s.d, 0), 0, Cells - 1)]
  ELSE IF s.t.dirty /\ ~Below(LastDirty(s.t), s.t.start)
    THEN [t |-> ResetRange([s.t EXCEPT !.dirty = FALSE]),
          d |-> DrawCells(s.t, s.d, s.t.start, LastDirty(s.t))]
  ELSE [s EXCEPT !.t = ResetRange([s.t EXCEPT !.dirty = FALSE])]

Scrolled(cells) ==
  [i \in DOMAIN cells |-> IF i + VtWidth * ScrollStep < Cells
                            THEN cells[i + VtWidth * ScrollStep] ELSE NoChar]

\* Mutant: the screen is not drawn anew after the scroll.
VtAdvanceYQuiet(s) ==
  LET y == s.t.y + 1
  IN  VtFlush([s EXCEPT !.t =
        IF y >= VtHeight
          THEN [s.t EXCEPT !.y = y - ScrollStep, !.cells = Scrolled(@), !.dirty = TRUE]
          ELSE [s.t EXCEPT !.y = y, !.dirty = TRUE]])

VtAdvanceY(s) ==
  LET y == s.t.y + 1
  IN  VtFlush([s EXCEPT !.t =
        IF y >= VtHeight
          THEN [s.t EXCEPT !.y = y - ScrollStep, !.cells = Scrolled(@), !.dirty = TRUE,
                           !.full = TRUE]
          ELSE [s.t EXCEPT !.y = y, !.dirty = TRUE]])

\* Mutant: the line has a column too many.
VtAdvanceXLong(s) ==
  IF s.t.x >= VtWidth
    THEN VtAdvanceY([s EXCEPT !.t.x = 0])
    ELSE [s EXCEPT !.t.x = @ + 1]

VtAdvanceX(s) ==
  IF Below(s.t.x + 1, VtWidth)
    THEN [s EXCEPT !.t.x = @ + 1]
    ELSE VtAdvanceY([s EXCEPT !.t.x = 0])

-----------------------------------------------------------------------------
(***************************************************************************)
(* kprintc.                                                                *)
(***************************************************************************)
At(t) == t.y * VtWidth + t.x

\* Mutant: the range begins at this character.
MarkFrom(t) == [t EXCEPT !.dirty = TRUE, !.start = At(t), !.end = Greater(At(t), @)]

Mark(t) == [t EXCEPT !.dirty = TRUE, !.start = Lesser(At(t), @), !.end = Greater(At(t), @)]

\* A cell before the first one is memory that is not the terminal's.
WriteCell(t, c) ==
  LET new == [unicode |-> c, fg |-> AnsiConvertFg(t.gr), bg |-> AnsiConvertBg(t.gr)]
  IN  IF At(t) \in 0 .. Cells - 1 THEN [t EXCEPT !.cells[At(t)] = new]
                                  ELSE [t EXCEPT !.outside = TRUE]

\* Eight columns.
Twice(s) == VtAdvanceX(VtAdvanceX(s))
Tab(s) == Twice(Twice(Twice(Twice(s))))

Kprintc(s, c) ==
  IF s.t.termcode
    THEN [s EXCEPT !.t = [s.t EXCEPT !.gr = Termcode(@, c), !.termcode = FALSE]]
  ELSE CASE c = LF -> VtAdvanceY(VtFlush([s EXCEPT !.t = Mark(s.t)]))
         [] c = CR -> [s EXCEPT !.t.x = 0]
         [] c = BS -> [s EXCEPT !.t.x = @ - 1]
         [] c = BEL -> [s EXCEPT !.t.termcode = TRUE]
         [] c = HT -> Tab(s)
         [] OTHER -> VtAdvanceX([s EXCEPT !.t = Mark(WriteCell(s.t, c))])

-----------------------------------------------------------------------------
(***************************************************************************)
(* kprintf.                                                                *)
(***************************************************************************)
Idle == [pc |-> "idle", call |-> NoOne, text |-> <<>>, i |-> 0]

Now == [t |-> vt, d |-> display]
Become(next) == \E s \in {next} : vt' = s.t /\ display' = s.d

\* CPUs in the flush that the lock does not cover.
Flushing == {c \in Cpus : job[c].pc \in {"full", "dirty", "reset"}}

\* A step of one CPU while another flushes may leave something out.
Disturbs(c) == behind' = IF Flushing \ {c} # {} THEN behind \cup {"race"} ELSE behind

\* A complete redraw that begins with nobody else flushing makes good what was
\* left out before it, once it is over.
Redraws(c) == behind' = IF Flushing \ {c} # {} THEN behind \cup {"race"}
                        ELSE IF display.active = 0 THEN {"redraw"} ELSE behind

JobTo(c, pc) == job' = [job EXCEPT ![c].pc = pc]

Kprintf(c) ==
  /\ job[c].pc = "idle" /\ count.prints < MaxPrints
  /\ \E call \in Calls :
       job' = [job EXCEPT ![c] = [pc |-> "lock", call |-> call, i |-> 0,
                                  text |-> Kvfprintf(call.fmt, call.args).out]]
  /\ count' = [count EXCEPT !.prints = @ + 1]
  /\ UNCHANGED <<display, vt, lock, behind>>

\* Mutant: the lock is taken whoever has it.
LockTaken(c) == /\ job[c].pc = "lock"
                /\ lock' = c
                /\ JobTo(c, "chars")
                /\ UNCHANGED <<display, vt, count, behind>>

Lock(c) == /\ job[c].pc = "lock" /\ lock = NoOne
           /\ lock' = c
           /\ JobTo(c, "chars")
           /\ UNCHANGED <<display, vt, count, behind>>

PutChar(c) ==
  /\ job[c].pc = "chars" /\ job[c].i < Len(job[c].text)
  /\ Become(Kprintc(Now, job[c].text[job[c].i + 1]))
  /\ Disturbs(c)
  /\ job' = [job EXCEPT ![c].i = @ + 1]
  /\ UNCHANGED <<lock, count>>

Unlock(c) == /\ job[c].pc = "chars" /\ job[c].i = Len(job[c].text)
             /\ lock' = NoOne
             /\ JobTo(c, "flush")
             /\ UNCHANGED <<display, vt, count, behind>>

BeginFlush(c) ==
  /\ job[c].pc = "flush"
  /\ IF vt.full
       THEN /\ display' = DrmClear(display, 0)
            /\ job' = [job EXCEPT ![c].pc = "full", ![c].i = 0]
            /\ Redraws(c)
       ELSE /\ job' = [job EXCEPT ![c].pc = IF vt.dirty THEN "dirty" ELSE "reset",
                                  ![c].i = vt.start]
            /\ Disturbs(c)
            /\ UNCHANGED display
  /\ UNCHANGED <<vt, lock, count>>

FlushAll(c) ==
  /\ job[c].pc = "full"
  /\ IF job[c].i < Cells
       THEN /\ display' = VtDrawChar(vt, display, job[c].i)
            /\ job' = [job EXCEPT ![c].i = @ + 1]
            /\ Disturbs(c)
            /\ UNCHANGED vt
       ELSE /\ vt' = [vt EXCEPT !.full = FALSE, !.dirty = FALSE]
            /\ JobTo(c, "reset")
            /\ behind' = IF Flushing = {c} THEN behind \ {"redraw"} ELSE behind \cup {"race"}
            /\ UNCHANGED display
  /\ UNCHANGED <<lock, count>>

FlushDirty(c) ==
  /\ job[c].pc = "dirty"
  /\ IF job[c].i \in 0 .. LastDirty(vt)
       THEN /\ display' = VtDrawChar(vt, display, job[c].i)
            /\ job' = [job EXCEPT ![c].i = @ + 1]
            /\ UNCHANGED vt
       ELSE /\ vt' = [vt EXCEPT !.dirty = FALSE]
            /\ JobTo(c, "reset")
            /\ UNCHANGED display
  /\ Disturbs(c)
  /\ UNCHANGED <<lock, count>>

EndFlush(c) ==
  /\ job[c].pc = "reset"
  /\ vt' = ResetRange(vt)
  /\ job' = [job EXCEPT ![c] = Idle]
  /\ Disturbs(c)
  /\ UNCHANGED <<display, lock, count>>

-----------------------------------------------------------------------------
\* vt_clear: its flush is not under the lock either.
VtClear(c) ==
  /\ job[c].pc = "idle" /\ lock = NoOne /\ count.switches < MaxSwitches
  /\ vt' = [vt EXCEPT !.x = 0, !.y = 0, !.full = TRUE,
                      !.cells = [i \in DOMAIN vt.cells |-> NoChar]]
  /\ job' = [job EXCEPT ![c] = [Idle EXCEPT !.pc = "flush"]]
  /\ Disturbs(c)
  /\ count' = [count EXCEPT !.switches = @ + 1]
  /\ UNCHANGED <<display, lock>>

\* font_parse, once: the glyphs of the font, and vt_redraw, without the lock.
FontParse(c) ==
  /\ job[c].pc = "idle" /\ ~vt.font
  /\ vt' = [vt EXCEPT !.font = TRUE, !.full = TRUE]
  /\ job' = [job EXCEPT ![c] = [Idle EXCEPT !.pc = "flush"]]
  /\ Disturbs(c)
  /\ UNCHANGED <<display, lock, count>>

\* drm_switch: what another drm showed, or what this one's buffer holds.
Switch == \E n \in Drms :
            /\ count.switches < MaxSwitches
            /\ display' = DrmSwitch(display, n)
            /\ behind' = behind \cup {"switch"}
            /\ count' = [count EXCEPT !.switches = @ + 1]
            /\ UNCHANGED <<vt, job, lock>>

\* drm_switch(0), then vt_init, whose vt_clear flushes; no font is loaded.
Init ==
  /\ DrmInit
  /\ vt = [cells |-> [i \in 0 .. Cells - 1 |-> NoChar], x |-> 0, y |-> 0,
           start |-> Cells, end |-> 1, dirty |-> FALSE, full |-> FALSE,
           gr |-> Plain, termcode |-> FALSE, outside |-> FALSE,
           font |-> FALSE]
  /\ job = [c \in Cpus |-> Idle]
  /\ lock = NoOne
  /\ count = [prints |-> 0, switches |-> 0]
  /\ behind = {}

CpuStep(c) == \/ Lock(c) \/ PutChar(c) \/ Unlock(c)
              \/ BeginFlush(c) \/ FlushAll(c) \/ FlushDirty(c) \/ EndFlush(c)

Next == \/ \E c \in Cpus : Kprintf(c) \/ VtClear(c) \/ FontParse(c) \/ CpuStep(c)
        \/ Switch

Spec == Init /\ [][Next]_vtVars

-----------------------------------------------------------------------------
\* The types of the terminal's state.
TypeOK ==
  /\ DOMAIN display.screen = Offsets /\ display.active \in Drms
  /\ vt.y \in Nat /\ vt.start \in 0 .. Cells /\ vt.gr.fg \in 0 .. 7 /\ vt.gr.bg \in 0 .. 7
  /\ \A c \in Cpus : job[c].pc \in {"idle", "lock", "chars", "flush", "full", "dirty", "reset"}
  /\ \A c \in Cpus : job[c].pc = "chars" => lock = c

\* Whatever is printed, the cursor stays on the screen, but for backspaces
\* that move it left of column 0; a character is written outside of the cells
\* only from there, and nothing is drawn outside of the screen's memory
\* (kprintc, vt_advance_x, vt_advance_y).
CursorInside == /\ vt.x < VtWidth /\ vt.y < VtHeight
                /\ display.outside = {}

\* Memory that is not the terminal's is written only by a character after a
\* backspace that left the first cell: the column wraps below 0 (kprintc).
OutsideAfterBackspace == [][vt'.outside # vt.outside => At(vt) < 0]_vtVars

\* Drawing a cell again would change nothing.
Shown(i) == VtDrawChar(vt, display, i).screen = display.screen

\* Between two characters, a cell that the screen does not show as it is lies
\* in the dirty range, or everything is to be drawn: no order of scrolls,
\* tabs, backspaces and returns makes the range too small (kprintc, vt_flush).
\* A flush beside another CPU's print and a switch of the drm are excepted.
DirtyCovers ==
  behind = {} /\ Flushing = {} /\ display.active = 0 =>
    \A i \in 0 .. Cells - 1 :
      Shown(i) \/ vt.full \/ (vt.dirty /\ vt.start <= i /\ i <= LastDirty(vt))

\* When no CPU prints, the screen shows the cells, unless flushes of two CPUs
\* overlapped or a switch of the drm has brought back an old picture, and
\* nothing has been drawn completely since (kprint, vt_flush, drm_switch).
PictureTrue ==
  behind = {} /\ display.active = 0 /\ (\A c \in Cpus : job[c].pc \in {"idle", "lock"}) =>
    \A i \in 0 .. Cells - 1 : Shown(i)

\* The number that a text stands for.
Value(c) == IF c < 58 THEN c - 48 ELSE c - 87

ReadDigits(text, base, sign, m) ==
  LET read[i \in 0 .. m] == IF i = 0 THEN 0 ELSE read[i - 1] * base + Value(text[sign + i])
  IN  read[m]

ReadBack(text, base) ==
  LET sign == IF text[1] = 43 THEN 1 ELSE 0
  IN  ReadDigits(text, base, sign, Len(text) - sign)

\* What a number is printed as reads back as that number; a positive signed
\* one begins with a plus sign (kvfprintf, ntos).
NumbersReadBack ==
  \A c \in Cpus :
    LET call == job[c].call
        v == Conversion[call.fmt[2]]
    IN  job[c].pc = "lock" /\ PrintsNumber(call) /\ call.args[1] >= 0 =>
          /\ ReadBack(job[c].text, v.base) = call.args[1]
          /\ v.unsign \/ call.args[1] = 0 \/ job[c].text[1] = 43
=============================================================================
