-------------------------------- MODULE Egsm --------------------------------
(***************************************************************************)
(* The embedded Neutrino GSM (src/utils/loader/src/egsm): a title keeps    *)
(* setting its own video mode, and a hook of SetGsCrt() and a handler for  *)
(* hardware breakpoints on the video registers turn what it writes into    *)
(* the mode that was asked for.  This module is the video state of the     *)
(* handler, the registers of the Graphics Synthesizer behind it, and a     *)
(* title that uses them in any order.                                      *)
(***************************************************************************)
EXTENDS Console

CONSTANTS
  GsmArgs,     \* eGSM arguments: video mode, compatibility mode, console too old for 576p
  Circuits,    \* read circuits of the GS
  GameModes(_), \* modes a title in this compatibility mode passes to SetGsCrt()
  Pictures     \* the DISPLAY values it writes, beside 0

KnownVideoArgs == {"fp1", "fp2", "1080ix1", "1080ix2", "1080ix3"}
KnownModes == {"ntsc", "pal", "480p", "576p", "1080i", "720p"}
\* DISPLAY without its position, each size one more than in the register.
Sizes(magh, magv, dw, dh) == [magh |-> magh, magv |-> magv, dw |-> dw, dh |-> dh]
NoPicture == Sizes(1, 1, 1, 1)
ASSUME EgsmAssumption ==
  /\ \A a \in GsmArgs : a \in [video : STRING, comp : {"", "1", "2", "3"}, old : BOOLEAN]
  /\ \A a \in GsmArgs : GameModes(a.comp) \subseteq KnownModes
  /\ \A p \in Pictures : p \in [magh : 1 .. 16, magv : 1 .. 4, dw : 1 .. 4096, dh : 1 .. 2048]

VARIABLES
  gsm,     \* struct gsm_state
  gs,      \* the GS: mode, DISPLAY, VSINT, and whether the breakpoints are set
  title    \* history: mode and pictures the title set, as far as the handler did not
           \* discard them, and the vertical syncs it saw

gsmVars == <<gsm, gs, title>>

---------------------------------------------------------------------------
(* parseGSMFlags(): without a video mode the rest is not looked at.        *)
GsmOff == [video |-> "", comp |-> "", no576p |-> FALSE]
GsmFlags(a) ==
  IF a.video \in KnownVideoArgs
    THEN [video |-> a.video, comp |-> a.comp, no576p |-> a.old] ELSE GsmOff

(* update_scaling_center(): size and place of the visible area of a mode,  *)
(* dots per pixel, and the heights of framebuffer and picture in units of  *)
(* 240 lines.                                                              *)
Area(w, h, xoff, yoff, vck, lines) ==
  [w |-> w, h |-> h, xoff |-> xoff, yoff |-> yoff, vck |-> vck, lines |-> lines]
AreaOf ==
  [ntsc  |-> Area(720, 480, 123, 34, 4, 2),    pal |-> Area(720, 576, 130, 40, 4, 2),
   480p  |-> Area(720, 480, 123, 34, 2, 2),   576p |-> Area(720, 576, 130, 40, 2, 2),
   1080i |-> Area(1920, 1080, 236, 38, 1, 4)]

ScalingCenter(m) ==
  IF m.mode \notin DOMAIN AreaOf THEN m ELSE
    LET a     == AreaOf[m.mode]
        low   == m.mode \in {"ntsc", "pal"} /\ ~m.interlace
        Low(n)  == IF low THEN n \div 2 ELSE n
        frame == m.interlace /\ m.frame
    IN [m EXCEPT !.vck = a.vck, !.dp = Low(a.lines),
                 !.fb  = Low(IF frame THEN a.lines \div 2 ELSE a.lines),
                 !.xc  = (a.xoff + a.w \div 2) * a.vck,
                 !.yc  = Low(a.yoff) + Low(a.h) \div 2]

\* How much larger (mul) or smaller (div) one height is than another.
Ratio(to, from) ==
  IF from > to THEN [mul |-> 1, div |-> from \div to] ELSE [mul |-> to \div from, div |-> 1]

(* update_scaling().  A height of 0 divides by zero inside the handler:    *)
(* "1080ix1" halves the heights of a mode whose area is not known again    *)
(* each time.                                                              *)
Half(m) == [m EXCEPT !.fb = @ \div 2, !.dp = @ \div 2]
UpdateScaling(s) ==
  LET game == ScalingCenter(s.game)
      out  == IF s.flags.video = "1080ix1" THEN Half(ScalingCenter(s.out))
                                           ELSE ScalingCenter(s.out)
  IN IF 0 \in {out.fb, out.dp}
       THEN [s EXCEPT !.game = game, !.out = out]
       ELSE [s EXCEPT !.game = game, !.out = out,
               !.wide = IF s.flags.video = "1080ix2" THEN 2
                        ELSE IF s.flags.video = "1080ix3" THEN 3 ELSE 1,
               !.tall = Ratio(out.fb, game.fb), !.high = Ratio(out.dp, game.dp),
               !.vckDiv = game.vck \div out.vck]
Divides(s) == 0 \notin {s.out.fb, s.out.dp}

\* What is left of a size in a field of the register, which holds one less.
Field(n, size) == 1 + ((n - 1) % size)

(* mod_DISPLAY().  The sizes are computed as they are; the bits of the     *)
(* register's fields (4, 2, 12, 11, 12 and 11) is what is left of them.    *)
ModDisplay(s, r) ==
  LET magh == (r.magh * s.wide) \div s.vckDiv
      magv == (r.magv * s.tall.mul) \div s.tall.div
      dw   == (r.dw * magh) \div r.magh
      dh   == (r.dh * s.high.mul) \div s.high.div
  IN [magh |-> Field(magh, 16), magv |-> Field(magv, 4), dw |-> Field(dw, 4096),
      dh |-> Field(dh, 2048), dx |-> (s.out.xc - (dw \div 2)) % 4096,
      dy |-> (s.out.yc - (dh \div 2)) % 2048]

\* Written by the title itself, or by the kernel: not followed.
Raw == [magh |-> 0, magv |-> 0, dw |-> 0, dh |-> 0, dx |-> 0, dy |-> 0]

---------------------------------------------------------------------------
Running == pc = "title"

(* hook_SetGsCrt().  A mode it does not support, or PAL where the console  *)
(* cannot show 576p, sets nothing: the system call does nothing at all.    *)
Forced(game, f) ==
  CASE f.video = "fp1" ->
         IF game.interlace /\ game.frame THEN [game EXCEPT !.interlace = FALSE] ELSE game
    [] f.video = "fp2" ->
         [game EXCEPT !.interlace = FALSE, !.frame = TRUE,
                      !.mode = IF @ = "ntsc" THEN "480p" ELSE "576p"]
    [] OTHER -> [game EXCEPT !.interlace = TRUE, !.mode = "1080i"]
Supported(mode, f) ==
  mode \in {"ntsc", "pal"} /\ ~(f.video = "fp2" /\ mode = "pal" /\ f.no576p)

NoMode == [mode |-> "none", interlace |-> FALSE, frame |-> FALSE, vck |-> 0, fb |-> 0,
           dp |-> 0, xc |-> 0, yc |-> 0]
ModeOf(m) == [mode |-> m.mode, interlace |-> m.interlace, frame |-> m.frame]

SetGsCrt ==
  /\ Running
  /\ \E i, f \in BOOLEAN, m \in GameModes(gsm.flags.comp) :
       LET game == [gsm.game EXCEPT !.interlace = i, !.mode = m, !.frame = f]
           next == UpdateScaling([gsm EXCEPT !.game = game, !.out = Forced(game, gsm.flags)])
       IN /\ IF Supported(m, gsm.flags)
               THEN /\ gsm' = next
                    /\ gs' = [gs EXCEPT !.mode = ModeOf(next.out), !.trap = TRUE,
                                    !.display = [c \in Circuits |-> Raw]]
               ELSE gsm' = [gsm EXCEPT !.game = game, !.out = game] /\ UNCHANGED gs
          /\ title' = [title EXCEPT !.wanted = [c \in Circuits |-> NoPicture],
                                    !.own = [mode |-> m, interlace |-> i, frame |-> f]]
  /\ UNCHANGED consoleVars

(* The handler: it emulates sd and ld, one register at a time.  Any other  *)
(* instruction runs as it is with the breakpoints taken away, and they     *)
(* stay away until the next SetGsCrt().  The offset of sd and ld is not    *)
(* sign-extended: with a negative one the handler takes the address for    *)
(* one it does not know and goes on behind the instruction, which has      *)
(* neither written nor read.                                               *)

WriteDisplay(c, r) ==
  /\ Running /\ gs.trap
  /\ gsm' = [gsm EXCEPT !.last[c] = r]
  /\ gs' = [gs EXCEPT !.display[c] = ModDisplay(gsm, r)]
  /\ title' = [title EXCEPT !.wanted[c] = r]
  /\ UNCHANGED consoleVars

DisplayDiscarded(c) ==
  /\ Running /\ gs.trap
  /\ title' = [title EXCEPT !.wanted[c] = NoPicture]
  /\ UNCHANGED <<consoleVars, gsm, gs>>

WriteDisplayRaw(c) ==
  /\ Running
  /\ gs' = [gs EXCEPT !.display[c] = Raw, !.trap = FALSE]
  /\ title' = [title EXCEPT !.wanted[c] = NoPicture]
  /\ UNCHANGED <<consoleVars, gsm>>

\* Pictures stay as they were scaled for the mode before.
NotRescaled(s) == gs.display

\* SMODE2: interlace and field or frame, outside SetGsCrt(); the last values
\* of DISPLAY are scaled again.
Rescaled(s) ==
  [c \in Circuits |-> IF s.last[c] # NoPicture THEN ModDisplay(s, s.last[c]) ELSE gs.display[c]]
WriteSmode2 ==
  /\ Running /\ gs.trap
  /\ \E i, f \in BOOLEAN :
       LET asked == [gsm EXCEPT !.game.interlace = i, !.game.frame = f,
                                !.out.frame = IF i THEN f ELSE @]
           next  == UpdateScaling(asked)
       IN /\ gsm' = next
          /\ IF Divides(next)
               THEN /\ gs' = [gs EXCEPT
                         !.display = Rescaled(next), !.mode.interlace = next.out.interlace,
                         !.mode.frame = next.out.frame]
                    /\ UNCHANGED pc
               ELSE pc' = "trap" /\ UNCHANGED gs
          /\ title' = [title EXCEPT
               !.own = [mode |-> gsm.game.mode, interlace |-> i, frame |-> f]]
  /\ UNCHANGED <<mounted, drivers, exists>>

Smode2Discarded ==
  /\ Running /\ gs.trap
  /\ title' = [title EXCEPT !.own = ModeOf(NoMode)]
  /\ UNCHANGED <<consoleVars, gsm, gs>>

WriteSmode2Raw ==
  /\ Running
  /\ gs' = [gs EXCEPT !.mode = ModeOf(NoMode), !.trap = FALSE]
  /\ UNCHANGED <<consoleVars, gsm, title>>

\* An access from the delay slot of a branch the handler does not know.
StrangeBranch ==
  /\ Running /\ gs.trap
  /\ pc' = "trap"
  /\ gs' = [gs EXCEPT !.trap = FALSE]
  /\ UNCHANGED <<mounted, drivers, exists, gsm, title>>

---------------------------------------------------------------------------
(* The vertical sync bit of CSR and the emulated FIELD bit; the address of *)
(* CSR is watched only in a compatibility mode.                            *)
Watched == gs.trap /\ gsm.flags.comp # ""

Vsync ==
  /\ Running /\ gsm.flags.comp # ""
  /\ gs' = [gs EXCEPT !.vsint = TRUE]
  /\ title' = [title EXCEPT !.edge = @ \/ ~gs.vsint]
  /\ UNCHANGED <<consoleVars, gsm>>

(* VSINTCount has four bits, of which the lowest is used.  A read with a   *)
(* negative offset leaves the title's register, and all of this, as it is; *)
(* so does an acknowledge.                                                 *)
Flip(s) == [s EXCEPT !.count = (@ + 1) % 2]
ReadCsr ==
  /\ Running /\ Watched
  /\ CASE gsm.flags.comp = "1" /\ gs.vsint ->
            /\ gsm' = [Flip(gsm) EXCEPT !.prev = TRUE]
            /\ gs' = [gs EXCEPT !.vsint = FALSE]
       [] gsm.flags.comp = "2" /\ gs.vsint /\ ~gsm.prev ->
            gsm' = [Flip(gsm) EXCEPT !.prev = TRUE] /\ UNCHANGED gs
       [] OTHER -> gsm' = [gsm EXCEPT !.prev = gs.vsint] /\ UNCHANGED gs
  /\ title' = [title EXCEPT
       !.field = IF title.lost THEN gsm'.count
                 ELSE IF gs.vsint /\ title.edge THEN 1 - @ ELSE @,
       !.edge = FALSE, !.lost = FALSE]
  /\ UNCHANGED consoleVars

\* An acknowledge that leaves the handler with the bit it saw last.
AckCsrKept ==
  /\ Running /\ Watched
  /\ gs' = [gs EXCEPT !.vsint = FALSE]
  /\ UNCHANGED <<consoleVars, gsm, title>>

\* The title acknowledges the vertical sync.
AckCsr ==
  /\ Running /\ Watched
  /\ gs' = [gs EXCEPT !.vsint = FALSE]
  /\ gsm' = [gsm EXCEPT !.prev = FALSE]
  /\ UNCHANGED <<consoleVars, title>>

(* ... or with an instruction the handler does not emulate, so that it     *)
(* misses it.                                                              *)
AckCsrRaw ==
  /\ Running /\ gsm.flags.comp # ""
  /\ gs' = [gs EXCEPT !.vsint = FALSE, !.trap = FALSE]
  /\ title' = [title EXCEPT !.lost = TRUE]
  /\ UNCHANGED <<consoleVars, gsm>>

---------------------------------------------------------------------------
(* enableGSM(), before the title starts.  What the GS shows then was left  *)
(* by the program before.                                                  *)
GsmState(f) ==
  [flags |-> f, game |-> NoMode, out |-> NoMode, last |-> [c \in Circuits |-> NoPicture],
   wide |-> 0, tall |-> [mul |-> 0, div |-> 0], high |-> [mul |-> 0, div |-> 0], vckDiv |-> 0,
   count |-> 0, prev |-> FALSE]

EgsmInit ==
  /\ gsm = GsmState(GsmOff)
  /\ gs = [mode |-> ModeOf(NoMode), display |-> [c \in Circuits |-> Raw],
           vsint |-> FALSE, trap |-> FALSE]
  /\ title = [wanted |-> [c \in Circuits |-> NoPicture], own |-> ModeOf(NoMode), edge |-> FALSE,
              field |-> 0, lost |-> FALSE]

EnableGSM ==
  /\ \E a \in GsmArgs : GsmFlags(a) # GsmOff /\ gsm' = GsmState(GsmFlags(a))
  /\ UNCHANGED <<gs, title>>

EgsmNext ==
  \/ SetGsCrt
  \/ \E c \in Circuits : \/ DisplayDiscarded(c) \/ WriteDisplayRaw(c)
                         \/ \E r \in Pictures \cup {NoPicture} : WriteDisplay(c, r)
  \/ WriteSmode2 \/ Smode2Discarded \/ WriteSmode2Raw \/ StrangeBranch
  \/ Vsync \/ ReadCsr \/ AckCsr \/ AckCsrRaw

---------------------------------------------------------------------------
(* Framebuffer lines and picture lines of a mode, in units of 240: what    *)
(* the hardware shows.                                                     *)
FrameLines(m) ==
  CASE m.mode \in {"ntsc", "pal"} -> IF m.interlace /\ ~m.frame THEN 2 ELSE 1
    [] m.mode \in {"480p", "576p"} -> IF m.interlace /\ m.frame THEN 1 ELSE 2
    [] m.mode = "1080i" -> IF m.frame THEN 2 ELSE 4
PictureLines(m) ==
  CASE m.mode \in {"ntsc", "pal"} -> IF m.interlace THEN 2 ELSE 1
    [] m.mode \in {"480p", "576p"} -> 2
    [] m.mode = "1080i" -> 4

\* "1080ix1" fills half of its mode.
Part(v) == IF v = "1080ix1" THEN 2 ELSE 1

(* A picture as titles ask for: whole pixels of at least four dots and an  *)
(* even number of lines, inside the visible area of the title's own mode,  *)
(* and each line as often as the forced mode can repeat it.                *)
Suits(w) ==
  LET a == AreaOf[title.own.mode] IN
  /\ w.magh >= 4 /\ w.dw % w.magh = 0 /\ w.dw <= a.w * a.vck
  /\ w.dh % 2 = 0 /\ 2 * w.dh <= a.h * PictureLines(title.own)
  /\ w.magv * FrameLines(gs.mode) <= 4 * FrameLines(title.own) * Part(gsm.flags.video)

(* While the handler is in charge, a picture the title asks for after it   *)
(* has set a mode fills the forced mode as it filled the title's own: the  *)
(* same lines of the framebuffer, the same width, in the centre, whatever  *)
(* the title writes to SMODE2 and DISPLAY afterwards and in which order    *)
(* (mod_DISPLAY(), egsm.c:131-173, and el2_c_handler(), egsm.c:386-411),   *)
(* as long as the picture suits the title's own mode.  The exceptions:     *)
(* what the handler discards; and "fp1", where whether the mode is         *)
(* interlaced follows SetGsCrt() only: a title that goes from frame to     *)
(* field by SMODE2 gets a magnification of 0, which the register takes     *)
(* for 4.                                                                  *)
ShownAsMeant ==
  Running /\ gs.trap /\ Supported(title.own.mode, gsm.flags)
    /\ gsm.out.interlace = Forced(title.own, gsm.flags).interlace
  => \A c \in Circuits :
       LET d    == gs.display[c]
           w    == title.wanted[c]
           part == Part(gsm.flags.video)
           a    == AreaOf[gs.mode.mode]
           low  == gs.mode.mode \in {"ntsc", "pal"} /\ ~gs.mode.interlace
       IN w # NoPicture /\ Suits(w) =>
            /\ d.magv * FrameLines(title.own) * part = w.magv * FrameLines(gs.mode)
            /\ d.dh * PictureLines(title.own) * part = w.dh * PictureLines(gs.mode)
            /\ d.dw * w.magh = w.dw * d.magh /\ d.magh > 0
            /\ d.dx + d.dw \div 2 = (a.xoff + a.w \div 2) * a.vck
            /\ d.dy + d.dh \div 2 = (IF low THEN a.yoff \div 2 + a.h \div 4 ELSE a.yoff + a.h \div 2)

(* In the modes that flip FIELD by vertical syncs the title sees it flip   *)
(* once for each sync it can tell from the one before, however it mixes    *)
(* reading CSR and acknowledging (egsm.c:333-373, 412-417).  It starts     *)
(* again from what it reads next when the handler missed an acknowledge.   *)
FieldPerVsync == gsm.flags.comp \in {"1", "2"} => gsm.count = title.field
=============================================================================
