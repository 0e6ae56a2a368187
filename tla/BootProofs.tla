----------------------------- MODULE BootProofs -----------------------------
(***************************************************************************)
(* Proofs about Boot, for any configuration, partition, eGSM options and   *)
(* titles: the title's FIELD follows the vertical syncs, an item of the    *)
(* menu is looked up in the file it came from, what one program hands to   *)
(* the loader arrives, neither the fallbacks nor the targets that the      *)
(* launcher gives up are the fault of the program before, and pictures     *)
(* are shown as the title meant them.                                      *)
(***************************************************************************)
EXTENDS Boot, ModArithmetic, SequenceTheorems, TLAPS

-----------------------------------------------------------------------------
(* Which program runs *)

MbrPcs == {"init", "args", "config", "fsck", "lines", "dispatch", "entry", "next", "handle",
           "mounthosd", "mountxosd", "hosdsys", "osdhosdsys", "xosd", "osdxosd", "osdmenu",
           "bbn", "file", "patinfo", "dnas", "disc", "ps1disc", "ps2disc", "dvd", "execosd"}
MenuPcs == {"m_config", "m_osdr", "m_sysconf", "m_system", "m_recovery", "m_osd"}
LauncherPcs == {"l_main", "l_osdmhdd", "l_quickhdd", "l_next", "l_launch", "l_probe",
                "l_cdinit", "l_dkwdrv", "l_disc"}
LoaderPcs == {"loader", "loading"}
TitlePcs == {"title", "trap"}

\* Looking at files forgets nothing that was found.
LEMMA LookKeeps ==
  ASSUME NEW found, Look(found)
  PROVE  /\ DOMAIN exists' = DOMAIN exists
         /\ \A f \in DOMAIN exists : exists[f] = "yes" => exists'[f] = "yes"
BY DEF Look, Answer

LEMMA MbrRuns == ASSUME MbrNext PROVE pc \in MbrPcs
BY DEF MbrNext, MbrPcs, Init0, CheckFsck, RunFsck, OpenConfig, ReadPathLine, ReadArgLine,
       ReadFlagLine, EndConfig, DispatchArg, ReadPad, NextEntry, NextPath, HandleConfigPath,
       MountSystem, StartHOSDSYS, StartXOSD, StartOSDMenu, StartPSBBN, StartFile,
       HandleHDDApplication, HandleDNAS, StartGameDisc, HandlePS1Disc, HandlePS2Disc,
       StartDVDVideo, ExecOSD

LEMMA LauncherRuns == ASSUME LauncherNext PROVE pc \in LauncherPcs
BY DEF LauncherNext, LauncherPcs, MainPath, OpenOsdm, LoadDisk, OpenOsdmHdd, Quickboot,
       QuickbootHdd, NextTarget, LaunchDevice, LaunchOther, ExecROMPath, ProbeFile, ProbeUnits,
       ProbePFS, ProbePATINFO, InitCdrom, FindDkwdrv, DiscFails, StartPS1Disc, StartPS2Disc

LEMMA LoaderRuns == ASSUME LoaderNext PROVE pc \in LoaderPcs
BY DEF LoaderNext, LoaderMount, LoaderStart, LoaderPcs

LEMMA MenuRuns == ASSUME MenuNext PROVE pc \in MenuPcs
BY DEF MenuNext, LoadConfig, LaunchOSDSYS, LoadConfigHdd, LaunchHddOsd, HandleMenuEntry,
       LaunchUnlisted, OsdLeaves, LaunchPayload, MenuPcs

LEMMA EgsmRuns == ASSUME EgsmNext PROVE pc = "title"
BY DEF EgsmNext, SetGsCrt, WriteDisplay, DisplayDiscarded, WriteDisplayRaw, WriteSmode2,
       Smode2Discarded, WriteSmode2Raw,
       StrangeBranch, Vsync, ReadCsr, AckCsr, AckCsrRaw, Running

-----------------------------------------------------------------------------
(* The FIELD bit *)

comp  == gsm.flags.comp
Flips == comp # ""

\* In mode "1" a sync that is pending has not been told; in mode "2" it has
\* not as long as the handler saw the bit clear at its last look.  Without a
\* mode nothing of this moves, and with one a title is running.
FieldInv ==
  /\ {"flags", "count", "prev"} \subseteq DOMAIN gsm
  /\ "vsint" \in DOMAIN gs /\ {"edge", "field", "lost"} \subseteq DOMAIN title
  /\ gsm.prev \in BOOLEAN /\ gs.vsint \in BOOLEAN
  /\ title.edge \in BOOLEAN /\ title.lost \in BOOLEAN
  /\ gsm.count \in {0, 1}
  /\ comp \in {"1", "2"} \/ ~Flips => gsm.count = title.field
  /\ ~Flips => ~gs.vsint /\ ~title.edge /\ ~title.lost /\ title.field = 0
  /\ comp = "1" => (gs.vsint => title.edge)
  /\ comp = "2" /\ ~title.lost => (IF gs.vsint THEN title.edge = ~gsm.prev ELSE ~gsm.prev)
  /\ Flips => pc \in TitlePcs

LEMMA Modes == (comp = "1" => Flips) /\ (comp = "2" => Flips)
BY Zenon DEF Flips

LEMMA FieldInit == Init => FieldInv
<1> SUFFICES ASSUME Init PROVE FieldInv
  OBVIOUS
<1>1. gsm = GsmState(GsmOff)
  BY DEF Init, EgsmInit
<1>2. /\ {"flags", "count", "prev"} \subseteq DOMAIN gsm
      /\ gsm.flags = GsmOff /\ gsm.prev = FALSE /\ gsm.count = 0
  BY <1>1 DEF GsmState
<1>3. /\ "vsint" \in DOMAIN gs /\ {"edge", "field", "lost"} \subseteq DOMAIN title
      /\ gs.vsint = FALSE /\ title.edge = FALSE /\ title.lost = FALSE /\ title.field = 0
  BY DEF Init, EgsmInit
<1>4. ~Flips
  <2>1. GsmOff.comp = ""
    BY Zenon DEF GsmOff
  <2> QED BY <1>2, <2>1, Zenon DEF Flips, comp
<1> QED BY <1>2, <1>3, <1>4, Modes DEF FieldInv

\* update_scaling() leaves the vertical sync alone.
Sync(s, r) ==
  /\ DOMAIN r = DOMAIN s /\ r.flags = s.flags /\ r.count = s.count /\ r.prev = s.prev

LEMMA OtherField ==
  ASSUME NEW s, {"flags", "count", "prev"} \subseteq DOMAIN s,
         NEW f \in {"game", "out", "wide", "tall", "high", "vckDiv", "last"}, NEW v
  PROVE  Sync(s, [s EXCEPT ![f] = v])
BY DEF Sync

LEMMA ScalingKeeps ==
  ASSUME NEW s, {"flags", "count", "prev"} \subseteq DOMAIN s
  PROVE  Sync(s, UpdateScaling(s))
<1> DEFINE game == ScalingCenter(s.game)
           out  == IF s.flags.video = "1080ix1" THEN Half(ScalingCenter(s.out))
                                                ELSE ScalingCenter(s.out)
           wide == IF s.flags.video = "1080ix2" THEN 2
                   ELSE IF s.flags.video = "1080ix3" THEN 3 ELSE 1
           tall == Ratio(out.fb, game.fb)
           high == Ratio(out.dp, game.dp)
           vck  == game.vck \div out.vck
           s1   == [s EXCEPT !.game = game]
           s2   == [s1 EXCEPT !.out = out]
           s3   == [s2 EXCEPT !.wide = wide]
           s4   == [s3 EXCEPT !.tall = tall]
           s5   == [s4 EXCEPT !.high = high]
           s6   == [s5 EXCEPT !.vckDiv = vck]
<1>0. UpdateScaling(s) = IF 0 \in {out.fb, out.dp} THEN s2 ELSE s6
  BY Zenon DEF UpdateScaling
<1> HIDE DEF game, out, wide, tall, high, vck
<1>1. Sync(s, s1)
  BY OtherField
<1>2. Sync(s1, s2)
  BY <1>1, OtherField DEF Sync
<1>3. Sync(s, s2)
  BY <1>1, <1>2 DEF Sync
<1> HIDE DEF s2
<1>4. Sync(s2, s3)
  BY <1>3, OtherField DEF Sync
<1>5. Sync(s3, s4)
  BY <1>3, <1>4, OtherField DEF Sync
<1>6. Sync(s, s4)
  BY <1>3, <1>4, <1>5 DEF Sync
<1> HIDE DEF s4
<1>7. Sync(s4, s5)
  BY <1>6, OtherField DEF Sync
<1>8. Sync(s5, s6)
  BY <1>6, <1>7, OtherField DEF Sync
<1>9. Sync(s, s6)
  BY <1>6, <1>7, <1>8 DEF Sync
<1> HIDE DEF s6
<1> QED BY <1>0, <1>3, <1>9

\* A step that does not touch the sync bits.
LEMMA SyncQuiet ==
  ASSUME FieldInv, Sync(gsm, gsm'), gs'.vsint = gs.vsint, DOMAIN gs' = DOMAIN gs,
         \A x \in {"edge", "field", "lost"} : title'[x] = title[x], DOMAIN title' = DOMAIN title,
         Flips => pc' \in TitlePcs
  PROVE  FieldInv'
<1>1. comp' = comp /\ Flips' = Flips
  BY Zenon DEF Sync, comp, Flips
<1>2. title'.edge = title.edge /\ title'.field = title.field /\ title'.lost = title.lost
  OBVIOUS
<1> QED BY <1>1, <1>2 DEF FieldInv, Sync

LEMMA EgsmField == ASSUME FieldInv, EgsmNext PROVE FieldInv'
<1>0. pc \in TitlePcs
  BY EgsmRuns DEF TitlePcs
<1>1. CASE SetGsCrt
  <2>1. PICK i \in BOOLEAN, f \in BOOLEAN, m \in GameModes(gsm.flags.comp) :
          LET game == [gsm.game EXCEPT !.interlace = i, !.mode = m, !.frame = f]
              next == UpdateScaling([gsm EXCEPT !.game = game, !.out = Forced(game, gsm.flags)])
          IN /\ IF Supported(m, gsm.flags)
                  THEN /\ gsm' = next
                       /\ gs' = [gs EXCEPT !.mode = ModeOf(next.out), !.trap = TRUE,
                                       !.display = [c \in Circuits |-> Raw]]
                  ELSE gsm' = [gsm EXCEPT !.game = game, !.out = game] /\ UNCHANGED gs
             /\ title' = [title EXCEPT !.wanted = [c \in Circuits |-> NoPicture],
                                       !.own = [mode |-> m, interlace |-> i, frame |-> f]]
    BY <1>1, Zenon DEF SetGsCrt
  <2> DEFINE game == [gsm.game EXCEPT !.interlace = i, !.mode = m, !.frame = f]
             out  == IF Supported(m, gsm.flags) THEN Forced(game, gsm.flags) ELSE game
             g1   == [gsm EXCEPT !.game = game]
             g2   == [g1 EXCEPT !.out = out]
  <2>2. /\ gsm' = UpdateScaling(g2) \/ gsm' = g2
        /\ gs' = gs \/ \E a, b : gs' = [gs EXCEPT !.mode = a, !.trap = TRUE, !.display = b]
    BY <2>1, Zenon
  <2> HIDE DEF game, out
  <2>3. Sync(gsm, g2)
    <3>1. Sync(gsm, g1)
      BY OtherField DEF FieldInv
    <3> HIDE DEF g1
    <3>2. Sync(g1, g2)
      BY <3>1, OtherField DEF FieldInv, Sync
    <3> QED BY <3>1, <3>2 DEF Sync
  <2> HIDE DEF g2
  <2>4. Sync(gsm, gsm')
    <3>1. Sync(g2, UpdateScaling(g2))
      BY <2>3, ScalingKeeps DEF Sync, FieldInv
    <3> QED BY <2>2, <2>3, <3>1 DEF Sync
  <2>5. gs'.vsint = gs.vsint /\ DOMAIN gs' = DOMAIN gs
    BY <2>2 DEF FieldInv
  <2>6. pc' = pc /\ \E a, b : title' = [title EXCEPT !.wanted = a, !.own = b]
    BY <1>1, Zenon DEF SetGsCrt, consoleVars
  <2> QED BY <1>0, <2>4, <2>5, <2>6, SyncQuiet DEF FieldInv
<1>2. ASSUME NEW c \in Circuits, NEW r, WriteDisplay(c, r) PROVE FieldInv'
  <2>1. PICK a, b, d : /\ gsm' = [gsm EXCEPT !.last = a] /\ gs' = [gs EXCEPT !.display = b]
                       /\ title' = [title EXCEPT !.wanted = d] /\ pc' = pc
    BY <1>2 DEF WriteDisplay, consoleVars
  <2>2. Sync(gsm, gsm')
    BY <2>1, OtherField DEF FieldInv
  <2> QED BY <1>0, <2>1, <2>2, SyncQuiet DEF FieldInv
<1>3. ASSUME NEW c \in Circuits, WriteDisplayRaw(c) PROVE FieldInv'
  <2>1. PICK b, d : /\ gsm' = gsm /\ gs' = [gs EXCEPT !.display = b, !.trap = FALSE]
                    /\ title' = [title EXCEPT !.wanted = d] /\ pc' = pc
    BY <1>3 DEF WriteDisplayRaw, consoleVars
  <2> QED BY <1>0, <2>1, SyncQuiet DEF FieldInv, Sync
<1>4. CASE WriteSmode2
  <2>1. PICK i \in BOOLEAN, f \in BOOLEAN :
          LET wanted == [gsm EXCEPT !.game.interlace = i, !.game.frame = f,
                                    !.out.frame = IF i THEN f ELSE @]
              next   == UpdateScaling(wanted)
          IN /\ gsm' = next
             /\ IF Divides(next)
                  THEN /\ gs' = [gs EXCEPT
                            !.display = Rescaled(next), !.mode.interlace = next.out.interlace,
                            !.mode.frame = next.out.frame]
                       /\ UNCHANGED pc
                  ELSE pc' = "trap" /\ UNCHANGED gs
             /\ title' = [title EXCEPT
                  !.own = [mode |-> gsm.game.mode, interlace |-> i, frame |-> f]]
    BY <1>4, Zenon DEF WriteSmode2
  <2> DEFINE out == [gsm.out EXCEPT !.frame = IF i THEN f ELSE @]
             g1  == [gsm EXCEPT !.game.interlace = i]
             g2  == [g1 EXCEPT !.game.frame = f]
             g3  == [g2 EXCEPT !.out.frame = IF i THEN f ELSE @]
  <2>2. /\ gsm' = UpdateScaling(g3) /\ (pc' = pc \/ pc' = "trap")
        /\ gs' = gs \/ \E a, b, d : gs' = [gs EXCEPT !.display = a, !.mode.interlace = b, !.mode.frame = d]
    BY <2>1, Zenon
  <2>3. Sync(gsm, g3)
    <3>1. g1 = [gsm EXCEPT !.game = [@ EXCEPT !.interlace = i]]
      OBVIOUS
    <3>2. Sync(gsm, g1)
      BY <3>1, OtherField DEF FieldInv
    <3> HIDE DEF g1
    <3>3. g2 = [g1 EXCEPT !.game = [@ EXCEPT !.frame = f]]
      OBVIOUS
    <3>4. Sync(g1, g2)
      BY <3>2, <3>3, OtherField DEF FieldInv, Sync
    <3> HIDE DEF g2
    <3>5. g3 = [g2 EXCEPT !.out = [g2.out EXCEPT !.frame = IF i THEN f ELSE g2.out.frame]]
      BY Zenon
    <3>6. Sync(g2, g3)
      BY <3>2, <3>4, <3>5, OtherField DEF FieldInv, Sync
    <3> QED BY <3>2, <3>4, <3>6 DEF Sync
  <2> HIDE DEF g3
  <2>4. Sync(gsm, gsm')
    <3>1. Sync(g3, UpdateScaling(g3))
      BY <2>3, ScalingKeeps DEF Sync, FieldInv
    <3> QED BY <2>2, <2>3, <3>1 DEF Sync
  <2>5. gs'.vsint = gs.vsint /\ DOMAIN gs' = DOMAIN gs
    BY <2>2 DEF FieldInv
  <2>6. \E a : title' = [title EXCEPT !.own = a]
    BY <1>4, Zenon DEF WriteSmode2
  <2> QED BY <1>0, <2>2, <2>4, <2>5, <2>6, SyncQuiet DEF FieldInv, TitlePcs
<1>5. CASE WriteSmode2Raw
  <2>1. gsm' = gsm /\ title' = title /\ pc' = pc
        /\ \E a : gs' = [gs EXCEPT !.mode = a, !.trap = FALSE]
    BY <1>5, Zenon DEF WriteSmode2Raw, consoleVars
  <2> QED BY <1>0, <2>1, SyncQuiet DEF FieldInv, Sync
<1>6. CASE StrangeBranch
  <2>1. gsm' = gsm /\ title' = title /\ pc' = "trap" /\ gs' = [gs EXCEPT !.trap = FALSE]
    BY <1>6, Zenon DEF StrangeBranch
  <2> QED BY <2>1, SyncQuiet DEF FieldInv, Sync, TitlePcs
<1>7. CASE Vsync
  <2>1. Flips /\ gsm' = gsm /\ pc' = pc
    BY <1>7, Zenon DEF Vsync, Flips, comp, consoleVars
  <2>2. gs' = [gs EXCEPT !.vsint = TRUE] /\ title' = [title EXCEPT !.edge = @ \/ ~gs.vsint]
    BY <1>7, Zenon DEF Vsync
  <2>3. comp' = comp /\ Flips' = Flips
    BY <2>1, Zenon DEF comp, Flips
  <2>4. gs'.vsint /\ gs'.vsint \in BOOLEAN /\ DOMAIN gs' = DOMAIN gs
    BY <2>2 DEF FieldInv
  <2>5. /\ title'.lost = title.lost /\ title'.edge = (title.edge \/ ~gs.vsint)
        /\ title'.field = title.field /\ DOMAIN title' = DOMAIN title
    BY <2>2 DEF FieldInv
  <2> QED BY <1>0, <2>1, <2>3, <2>4, <2>5 DEF FieldInv
<1>8. CASE ReadCsr
  <2>1. Flips /\ pc' = pc
    BY <1>8, Zenon DEF ReadCsr, Watched, Flips, comp, consoleVars
  <2>2. title' = [title EXCEPT
          !.field = IF title.lost THEN gsm'.count
                    ELSE IF gs.vsint /\ title.edge THEN 1 - @ ELSE @,
          !.edge = FALSE, !.lost = FALSE]
    BY <1>8, Zenon DEF ReadCsr
  <2>3. /\ title'.edge = FALSE /\ title'.lost = FALSE /\ DOMAIN title' = DOMAIN title
        /\ title'.field = IF title.lost THEN gsm'.count
                          ELSE IF gs.vsint /\ title.edge THEN 1 - title.field ELSE title.field
    BY <2>2 DEF FieldInv
  <2>4. \/ /\ comp = "1" /\ gs.vsint
           /\ gsm' = [Flip(gsm) EXCEPT !.prev = TRUE] /\ gs' = [gs EXCEPT !.vsint = FALSE]
        \/ /\ comp = "2" /\ gs.vsint /\ ~gsm.prev
           /\ gsm' = [Flip(gsm) EXCEPT !.prev = TRUE] /\ gs' = gs
        \/ /\ ~(comp = "1" /\ gs.vsint) /\ ~(comp = "2" /\ gs.vsint /\ ~gsm.prev)
           /\ gsm' = [gsm EXCEPT !.prev = gs.vsint] /\ gs' = gs
    BY <1>8 DEF ReadCsr, comp
  <2>5. DOMAIN gsm' = DOMAIN gsm /\ gsm'.flags = gsm.flags /\ DOMAIN gs' = DOMAIN gs
    BY <2>4 DEF Flip, FieldInv
  <2>6. comp' = comp /\ Flips' = Flips
    BY <2>5, Zenon DEF comp, Flips
  <2>7. CASE gsm' = [Flip(gsm) EXCEPT !.prev = TRUE]
    <3>1. gsm'.count = 1 - gsm.count /\ gsm'.count \in {0, 1} /\ gsm'.prev = TRUE
      BY <2>7 DEF Flip, FieldInv
    <3>2. CASE comp = "1" /\ gs.vsint /\ gs' = [gs EXCEPT !.vsint = FALSE]
      <4>1. gs'.vsint = FALSE
        BY <3>2 DEF FieldInv
      <4>2. gsm'.count = title'.field
        BY <2>3, <3>1, <3>2 DEF FieldInv
      <4> QED BY <1>0, <2>1, <2>3, <2>5, <2>6, <3>1, <3>2, <4>1, <4>2 DEF FieldInv
    <3>3. CASE comp = "2" /\ gs.vsint /\ ~gsm.prev /\ gs' = gs
      <4>1. gsm'.count = title'.field
        BY <2>3, <3>1, <3>3 DEF FieldInv
      <4> QED BY <1>0, <2>1, <2>3, <2>5, <2>6, <3>1, <3>3, <4>1 DEF FieldInv
    <3>4. CASE gsm' = [gsm EXCEPT !.prev = gs.vsint]
      BY <3>1, <3>4 DEF FieldInv
    <3> QED BY <2>4, <3>2, <3>3, <3>4
  <2>8. CASE /\ ~(comp = "1" /\ gs.vsint) /\ ~(comp = "2" /\ gs.vsint /\ ~gsm.prev)
             /\ gsm' = [gsm EXCEPT !.prev = gs.vsint] /\ gs' = gs
    <3>1. gsm'.count = gsm.count /\ gsm'.prev = gs.vsint
      BY <2>8 DEF FieldInv
    <3>2. comp \in {"1", "2"} => gsm'.count = title'.field
      BY <2>3, <2>8, <3>1 DEF FieldInv
    <3> QED BY <1>0, <2>1, <2>3, <2>5, <2>6, <2>8, <3>1, <3>2 DEF FieldInv
  <2> QED BY <2>4, <2>7, <2>8
<1>9. CASE AckCsr
  <2>1. Flips /\ pc' = pc
    BY <1>9, Zenon DEF AckCsr, Watched, Flips, comp, consoleVars
  <2>2. gs' = [gs EXCEPT !.vsint = FALSE] /\ gsm' = [gsm EXCEPT !.prev = FALSE] /\ title' = title
    BY <1>9, Zenon DEF AckCsr
  <2>3. comp' = comp /\ Flips' = Flips
    BY <2>2, Zenon DEF comp, Flips, FieldInv
  <2> QED BY <1>0, <2>1, <2>2, <2>3 DEF FieldInv
<1>10. CASE AckCsrRaw
  <2>1. Flips /\ pc' = pc
    BY <1>10, Zenon DEF AckCsrRaw, Flips, comp, consoleVars
  <2>2. /\ gs' = [gs EXCEPT !.vsint = FALSE, !.trap = FALSE] /\ gsm' = gsm
        /\ title' = [title EXCEPT !.lost = TRUE]
    BY <1>10, Zenon DEF AckCsrRaw
  <2>3. comp' = comp /\ Flips' = Flips
    BY <2>2, Zenon DEF comp, Flips
  <2>4. ~gs'.vsint /\ gs'.vsint \in BOOLEAN /\ DOMAIN gs' = DOMAIN gs
    BY <2>2 DEF FieldInv
  <2>5. /\ title'.lost /\ title'.lost \in BOOLEAN /\ title'.edge = title.edge
        /\ title'.field = title.field /\ DOMAIN title' = DOMAIN title
    BY <2>2 DEF FieldInv
  <2> QED BY <1>0, <2>1, <2>2, <2>3, <2>4, <2>5 DEF FieldInv
<1>11. ASSUME NEW c \in Circuits, DisplayDiscarded(c) PROVE FieldInv'
  <2>1. gsm' = gsm /\ gs' = gs /\ pc' = pc /\ \E a : title' = [title EXCEPT !.wanted = a]
    BY <1>11 DEF DisplayDiscarded, consoleVars
  <2> QED BY <1>0, <2>1, SyncQuiet DEF FieldInv, Sync
<1>12. CASE Smode2Discarded
  <2>1. gsm' = gsm /\ gs' = gs /\ pc' = pc /\ \E a : title' = [title EXCEPT !.own = a]
    BY <1>12, Zenon DEF Smode2Discarded, consoleVars
  <2> QED BY <1>0, <2>1, SyncQuiet DEF FieldInv, Sync
<1> QED BY <1>1, <1>2, <1>3, <1>4, <1>5, <1>6, <1>7, <1>8, <1>9, <1>10, <1>11, <1>12 DEF EgsmNext

\* Without a mode nothing moves while another program runs.
LEMMA OthersField ==
  ASSUME FieldInv, UNCHANGED gsmVars, pc \notin TitlePcs \/ pc' = pc
  PROVE  FieldInv'
<1>1. comp' = comp /\ Flips' = Flips
  BY Zenon DEF gsmVars, comp, Flips
<1> QED BY <1>1 DEF FieldInv, gsmVars

LEMMA TitleField == ASSUME FieldInv, StartTitle PROVE FieldInv'
<1>1. ~Flips
  <2>1. pc = "app"
    BY Zenon DEF StartTitle
  <2> QED BY <2>1 DEF FieldInv, TitlePcs
<1>2. PICK f : gsm' = GsmState(f)
  BY Zenon DEF StartTitle, EnableGSM
<1>3. gs' = gs /\ title' = title /\ pc' = "title"
  BY Zenon DEF StartTitle, EnableGSM
<1>4. DOMAIN gsm' = {"flags", "game", "out", "last", "wide", "tall", "high", "vckDiv", "count", "prev"}
      /\ gsm'.count = 0 /\ gsm'.prev = FALSE
  BY <1>2 DEF GsmState
<1> QED BY <1>1, <1>3, <1>4 DEF FieldInv, TitlePcs

LEMMA FieldStep == FieldInv /\ [Next]_vars => FieldInv'
<1> SUFFICES ASSUME FieldInv, [Next]_vars PROVE FieldInv'
  OBVIOUS
<1>1. CASE MbrNext /\ UNCHANGED <<launcherVars, menu, gsmVars>>
  BY <1>1, MbrRuns, OthersField DEF MbrPcs, TitlePcs
<1>2. CASE LauncherNext /\ UNCHANGED <<mbrVars, menu, gsmVars>>
  BY <1>2, LauncherRuns, OthersField DEF LauncherPcs, TitlePcs
<1>3. CASE LoaderNext /\ UNCHANGED <<mbrVars, launcherVars, menu, gsmVars>>
  BY <1>3, LoaderRuns, OthersField DEF LoaderPcs, TitlePcs
<1>4. CASE MenuNext /\ UNCHANGED <<asked, handed, mbrVars, gsmVars>>
  BY <1>4, MenuRuns, OthersField DEF MenuPcs, TitlePcs
<1>5. CASE EgsmNext
  BY <1>5, EgsmField
<1>6. CASE StartMenu \/ StartLauncher
  <2>1. pc = "app" /\ UNCHANGED gsmVars
    BY <1>6, Zenon DEF StartMenu, StartLauncher
  <2> QED BY <2>1, OthersField DEF TitlePcs
<1>7. CASE StartTitle
  BY <1>7, TitleField
<1>8. CASE UNCHANGED vars
  BY <1>8, OthersField DEF vars, consoleVars
<1> QED BY <1>1, <1>2, <1>3, <1>4, <1>5, <1>6, <1>7, <1>8, Zenon DEF Next

(* In the modes that flip FIELD by vertical syncs the title sees it flip   *)
(* once for each sync, for any titles and eGSM options and whatever the    *)
(* boot chain did before (egsm.c:355-392, 431-435).                        *)
THEOREM FieldPerVsyncAlways == Spec => []FieldPerVsync
<1>1. FieldInv => FieldPerVsync
  BY DEF FieldInv, FieldPerVsync, comp
<1> QED BY <1>1, FieldInit, FieldStep, PTL DEF Spec

-----------------------------------------------------------------------------
(* Where a step goes, and that it forgets no file *)

StartPcs == {"loader", "osdsys", "rom"}

\* Files that were found stay found.
Kept ==
  /\ DOMAIN exists' = DOMAIN exists
  /\ \A f \in DOMAIN exists : exists[f] = "yes" => exists'[f] = "yes"

LEMMA KeptSame == ASSUME exists' = exists PROVE Kept
BY DEF Kept

LEMMA KeptLook == ASSUME NEW found, Look(found) PROVE Kept
BY LookKeeps DEF Kept

LEMMA MbrGoes == ASSUME MbrNext PROVE pc' \in MbrPcs \cup StartPcs /\ Kept
<1> USE DEF MbrPcs, StartPcs
<1>1. CASE Init0
  BY <1>1, KeptSame DEF Init0
<1>2. CASE CheckFsck
  BY <1>2, KeptSame DEF CheckFsck
<1>3. CASE RunFsck
  BY <1>3, KeptLook DEF RunFsck, LoadELF
<1>4. CASE OpenConfig
  BY <1>4, KeptSame DEF OpenConfig
<1>5. CASE ReadPathLine
  BY <1>5, KeptSame DEF ReadPathLine, consoleVars
<1>6. CASE ReadArgLine
  BY <1>6, KeptSame DEF ReadArgLine, consoleVars
<1>7. CASE ReadFlagLine
  BY <1>7, KeptSame DEF ReadFlagLine, consoleVars
<1>8. CASE EndConfig
  BY <1>8, KeptSame DEF EndConfig
<1>9. CASE DispatchArg
  BY <1>9, KeptSame DEF DispatchArg, Asked
<1>10. CASE ReadPad
  BY <1>10, KeptSame DEF ReadPad
<1>11. CASE NextEntry
  BY <1>11, KeptSame DEF NextEntry
<1>12. CASE NextPath
  BY <1>12, KeptSame DEF NextPath
<1>13. CASE HandleConfigPath
  BY <1>13, KeptSame DEF HandleConfigPath
<1>14. CASE MountSystem
  BY <1>14, KeptLook DEF MountSystem, Fails
<1>15. CASE StartHOSDSYS
  BY <1>15, KeptLook DEF StartHOSDSYS, Fails, ExecuteELF, LoadELF
<1>16. CASE StartXOSD
  BY <1>16, KeptLook DEF StartXOSD, LoadELF, Fails
<1>17. CASE StartOSDMenu
  BY <1>17, KeptSame DEF StartOSDMenu, LoadELF
<1>18. CASE StartPSBBN
  BY <1>18, KeptLook DEF StartPSBBN, StartConfigPath, Fails, ExecuteELF, LoadELF
<1>19. CASE StartFile
  BY <1>19, KeptLook DEF StartFile, StartConfigPath, Fails, ExecuteELF, LoadELF
<1>20. CASE HandleHDDApplication
  <2>1. \E seen : Look(seen)
    BY <1>20, Zenon DEF HandleHDDApplication
  <2>2. pc' \in {"ps2disc", "loader", "execosd", "next"}
    BY <1>20 DEF HandleHDDApplication, ExecuteELF, LoadELF, Fails
  <2> QED BY <2>1, <2>2, KeptLook
<1>21. CASE HandleDNAS
  BY <1>21, KeptSame DEF HandleDNAS, ExecuteELF, LoadELF
<1>22. CASE StartGameDisc
  BY <1>22, KeptSame DEF StartGameDisc
<1>23. CASE HandlePS1Disc
  BY <1>23, KeptLook, KeptSame DEF HandlePS1Disc, LoadELF
<1>24. CASE HandlePS2Disc
  BY <1>24, KeptSame DEF HandlePS2Disc, LoadELF
<1>25. CASE StartDVDVideo
  BY <1>25, KeptSame DEF StartDVDVideo
<1>26. CASE ExecOSD
  BY <1>26, KeptLook DEF ExecOSD, ExecuteELF, LoadELF
<1> QED BY <1>1, <1>2, <1>3, <1>4, <1>5, <1>6, <1>7, <1>8, <1>9, <1>10, <1>11, <1>12,
           <1>13, <1>14, <1>15, <1>16, <1>17, <1>18, <1>19, <1>20, <1>21, <1>22, <1>23,
           <1>24, <1>25, <1>26 DEF MbrNext

LEMMA LauncherGoes == ASSUME LauncherNext PROVE pc' \in LauncherPcs \cup StartPcs /\ Kept
<1> USE DEF LauncherPcs, StartPcs
<1>1. CASE MainPath
  BY <1>1, KeptSame DEF MainPath
<1>2. CASE OpenOsdm
  BY <1>2, KeptLook DEF OpenOsdm, ChooseEntry, ListFails
<1>3. CASE LoadDisk
  BY <1>3, KeptSame DEF LoadDisk, ListFails
<1>4. CASE OpenOsdmHdd
  BY <1>4, KeptLook DEF OpenOsdmHdd, ChooseEntry, ListFails
<1>5. CASE Quickboot
  BY <1>5, KeptSame DEF Quickboot, ChoosePaths, ListFails
<1>6. CASE QuickbootHdd
  BY <1>6, KeptLook DEF QuickbootHdd, ChoosePaths, ListFails
<1>7. CASE NextTarget
  BY <1>7, KeptSame DEF NextTarget
<1>8. CASE LaunchDevice
  BY <1>8, KeptSame DEF LaunchDevice
<1>9. CASE LaunchOther
  BY <1>9, KeptSame DEF LaunchOther
<1>10. CASE ExecROMPath
  BY <1>10, KeptSame DEF ExecROMPath
<1>11. CASE ProbeFile
  BY <1>11, KeptLook DEF ProbeFile, LoadFrom, LoadELF
<1>12. CASE ProbeUnits
  BY <1>12, KeptLook DEF ProbeUnits, LoadFrom, LoadELF
<1>13. CASE ProbePFS
  BY <1>13, KeptLook DEF ProbePFS, LoadFrom, LoadELF
<1>14. CASE ProbePATINFO
  BY <1>14, KeptLook DEF ProbePATINFO, LoadELF
<1>15. CASE InitCdrom
  BY <1>15, KeptSame DEF InitCdrom
<1>16. CASE FindDkwdrv
  BY <1>16, KeptLook DEF FindDkwdrv
<1>17. CASE DiscFails
  BY <1>17, KeptSame DEF DiscFails
<1>18. CASE StartPS1Disc
  BY <1>18, KeptSame DEF StartPS1Disc, LoadELF
<1>19. CASE StartPS2Disc
  BY <1>19, KeptSame DEF StartPS2Disc, LoadELF
<1> QED BY <1>1, <1>2, <1>3, <1>4, <1>5, <1>6, <1>7, <1>8, <1>9, <1>10, <1>11, <1>12,
           <1>13, <1>14, <1>15, <1>16, <1>17, <1>18, <1>19 DEF LauncherNext

LEMMA LauncherSteps ==
  ASSUME LauncherNext
  PROVE  /\ pc' # "l_main" /\ (pc' = "l_osdmhdd" => LoadDisk)
         /\ hint' = hint \/ hint' = "APA" \/ hint' = "XFROM"
<1>1. CASE MainPath
  BY <1>1 DEF MainPath
<1>2. CASE OpenOsdm
  BY <1>2 DEF OpenOsdm, ChooseEntry, ListFails
<1>3. CASE LoadDisk
  BY <1>3 DEF LoadDisk, ListFails
<1>4. CASE OpenOsdmHdd
  BY <1>4 DEF OpenOsdmHdd, ChooseEntry, ListFails
<1>5. CASE Quickboot
  BY <1>5 DEF Quickboot, ChoosePaths, ListFails
<1>6. CASE QuickbootHdd
  BY <1>6 DEF QuickbootHdd, ChoosePaths, ListFails
<1>7. CASE NextTarget
  BY <1>7 DEF NextTarget
<1>8. CASE LaunchDevice
  BY <1>8 DEF LaunchDevice
<1>9. CASE LaunchOther
  BY <1>9 DEF LaunchOther, launcherVars
<1>10. CASE ExecROMPath
  BY <1>10 DEF ExecROMPath, launcherVars
<1>11. CASE ProbeFile
  BY <1>11 DEF ProbeFile, LoadFrom, launcherVars, LoadELF
<1>12. CASE ProbeUnits
  BY <1>12 DEF ProbeUnits, LoadFrom, launcherVars, LoadELF
<1>13. CASE ProbePFS
  BY <1>13 DEF ProbePFS, LoadFrom, launcherVars, LoadELF
<1>14. CASE ProbePATINFO
  BY <1>14 DEF ProbePATINFO, LoadELF
<1>15. CASE InitCdrom
  BY <1>15 DEF InitCdrom
<1>16. CASE FindDkwdrv
  BY <1>16 DEF FindDkwdrv
<1>17. CASE DiscFails
  BY <1>17 DEF DiscFails, launcherVars
<1>18. CASE StartPS1Disc
  BY <1>18 DEF StartPS1Disc, LoadELF
<1>19. CASE StartPS2Disc
  BY <1>19 DEF StartPS2Disc, LoadELF
<1> QED BY <1>1, <1>2, <1>3, <1>4, <1>5, <1>6, <1>7, <1>8, <1>9, <1>10, <1>11, <1>12,
           <1>13, <1>14, <1>15, <1>16, <1>17, <1>18, <1>19 DEF LauncherNext

LEMMA LoaderGoes == ASSUME LoaderNext PROVE pc' \in {"loading", "dead", "app"} /\ Kept
<1>1. (\E seen : Look(seen)) \/ exists' = exists
  BY Zenon DEF LoaderNext, LoaderMount, LoaderStart
<1>2. pc' = "loading" \/ pc' = "dead" \/ pc' = "app"
  BY Zenon DEF LoaderNext, LoaderMount, LoaderStart
<1> QED BY <1>1, <1>2, KeptSame, KeptLook

LEMMA EgsmGoes == ASSUME EgsmNext PROVE pc' \in TitlePcs /\ exists' = exists
<1>1. pc \in TitlePcs
  BY EgsmRuns DEF TitlePcs
<1>2. CASE WriteSmode2 \/ StrangeBranch
  <2>1. pc' = pc \/ pc' = "trap"
    BY <1>2, Zenon DEF WriteSmode2, StrangeBranch
  <2>2. exists' = exists
    BY <1>2, Zenon DEF WriteSmode2, StrangeBranch
  <2> QED BY <1>1, <2>1, <2>2 DEF TitlePcs
<1>3. CASE UNCHANGED consoleVars
  BY <1>1, <1>3 DEF consoleVars
<1>4. WriteSmode2 \/ StrangeBranch \/ UNCHANGED consoleVars
  BY Zenon DEF EgsmNext, SetGsCrt, WriteDisplay, DisplayDiscarded, WriteDisplayRaw,
               Smode2Discarded, WriteSmode2Raw, Vsync, ReadCsr, AckCsr, AckCsrRaw
<1> QED BY <1>2, <1>3, <1>4

-----------------------------------------------------------------------------
(* The configuration of the menu *)

Item(slot) ==
  CASE slot = 0 -> "osdm0" [] slot = 1 -> "osdm1" [] slot = 2 -> "osdm2" [] slot = 9 -> "osdm9"

\* The slot leads back to the file, which is there.
Chosen ==
  /\ menu.conf \in Confs /\ exists[menu.conf] = "yes"
  /\ menu.conf = "xcnf" => menu.slot = 2
  /\ menu.conf = "cnf1" => menu.slot = 1
  /\ menu.conf = "cnf0" => menu.slot \in {0, 2}
  /\ menu.conf = "hcnf" => menu.slot = 9 /\ exists["sysconf"] = "yes"

\* What the launcher knows when it is about to open the configuration.
Handed ==
  /\ pc = "l_main" => given = Item(menu.slot) /\ current = {} /\ opened = "none"
  /\ pc = "l_osdmhdd" => menu.slot = 9 /\ mounted = "none" /\ "apa" \in drivers

\* hint tells whether the launcher was started.
Programs ==
  /\ hint = "none" => opened = "none" /\ pc \notin LauncherPcs
  /\ hint # "none" => pc \in LauncherPcs \cup LoaderPcs \cup {"app", "dead", "rom", "osdsys"}
  /\ pc = "m_config" => menu.slot \in {0, 1, 2} /\ menu.conf = "none"
  /\ pc = "m_sysconf" => menu.slot = 9 /\ menu.conf = "none"
  /\ menu.conf # "none" /\ hint = "none" =>
       pc \in {"m_osdr", "m_system", "m_recovery", "m_osd", "exit"}

MenuInv ==
  /\ Confs \cup {"sysconf"} \subseteq DOMAIN exists /\ {"slot", "conf"} \subseteq DOMAIN menu
  /\ Programs
  /\ menu.conf # "none" => Chosen /\ Handed
  /\ ItemFromMenu

LEMMA MenuInvInit == Init => MenuInv
<1> SUFFICES ASSUME Init PROVE MenuInv
  OBVIOUS
<1>1. menu = NoMenu /\ hint = "none" /\ opened = "none" /\ pc = "init"
  BY DEF Init, MenuInit, LauncherInit, MbrInit
<1>2. {"slot", "conf"} \subseteq DOMAIN menu /\ menu.conf = "none"
  BY <1>1 DEF NoMenu
<1>3. Confs \cup {"sysconf"} \subseteq DOMAIN exists
  <2>1. DOMAIN exists = Files \cup Partitions
    BY DEF Init, ConsoleInit
  <2> QED BY <2>1 DEF Confs, Files, Partitions, Home
<1> QED BY <1>1, <1>2, <1>3 DEF MenuInv, Programs, LauncherPcs, ItemFromMenu

\* A file that was found is found again.
LEMMA ChosenKept ==
  ASSUME MenuInv, menu.conf # "none", Kept, menu' = menu
  PROVE  Chosen'
BY DEF MenuInv, Chosen, Kept

LEMMA KeptConfs ==
  ASSUME MenuInv, Kept
  PROVE  (Confs \cup {"sysconf"} \subseteq DOMAIN exists)'
BY DEF MenuInv, Kept

LEMMA MbrMenu ==
  ASSUME MenuInv, MbrNext, UNCHANGED <<launcherVars, menu>>
  PROVE  MenuInv'
<1>1. pc \in MbrPcs /\ pc' \in MbrPcs \cup StartPcs /\ Kept
  BY MbrRuns, MbrGoes
<1>2. hint' = hint /\ opened' = opened /\ menu' = menu
  BY DEF launcherVars
<1>3. hint = "none" /\ menu.conf = "none"
  BY <1>1 DEF MenuInv, Programs, MbrPcs, LauncherPcs, LoaderPcs
<1>4. pc' \notin LauncherPcs \cup {"m_config", "m_sysconf"}
  BY <1>1 DEF MbrPcs, StartPcs, LauncherPcs
<1> QED BY <1>1, <1>2, <1>3, <1>4, KeptConfs DEF MenuInv, Programs, ItemFromMenu

LEMMA LoaderMenu ==
  ASSUME MenuInv, LoaderNext, UNCHANGED <<launcherVars, menu>>
  PROVE  MenuInv'
<1>1. pc \in LoaderPcs /\ pc' \in {"loading", "dead", "app"} /\ Kept
  BY LoaderRuns, LoaderGoes
<1>2. hint' = hint /\ opened' = opened /\ menu' = menu
  BY DEF launcherVars
<1>3. Programs'
  BY <1>1, <1>2 DEF MenuInv, Programs, LoaderPcs, LauncherPcs
<1>4. Handed'
  BY <1>1 DEF Handed
<1> QED BY <1>1, <1>2, <1>3, <1>4, KeptConfs, ChosenKept DEF MenuInv, ItemFromMenu

LEMMA EgsmMenu ==
  ASSUME MenuInv, EgsmNext, UNCHANGED <<launcherVars, menu>>
  PROVE  MenuInv'
<1>1. pc = "title" /\ pc' \in TitlePcs /\ Kept
  BY EgsmRuns, EgsmGoes, KeptSame
<1>2. hint' = hint /\ opened' = opened /\ menu' = menu
  BY DEF launcherVars
<1>3. hint = "none" /\ menu.conf = "none"
  BY <1>1 DEF MenuInv, Programs, LauncherPcs, LoaderPcs
<1> QED BY <1>1, <1>2, <1>3, KeptConfs
        DEF MenuInv, Programs, ItemFromMenu, TitlePcs, LauncherPcs

\* What the launcher is started with stays until its first step.
LEMMA LauncherOpened ==
  ASSUME LauncherNext
  PROVE  opened' = opened \/ OpenOsdm \/ OpenOsdmHdd
BY DEF LauncherNext, MainPath, LoadDisk, Quickboot

LEMMA OpenOsdmMenu ==
  ASSUME MenuInv, menu.conf # "none", OpenOsdm
  PROVE  opened' = "none" \/ opened' = menu.conf \/ (menu.slot = 2 /\ menu.conf = "cnf0")
<1>1. given = Item(menu.slot) /\ Chosen
  BY DEF MenuInv, Handed, OpenOsdm
<1>2. menu.slot \in {0, 1, 2}
  <2>1. CASE menu.conf = "hcnf"
    BY <1>1, <2>1 DEF Chosen, Item, OpenOsdm
  <2> QED BY <1>1, <2>1 DEF Chosen, Confs
<1>3. PICK found, seen, file :
        /\ found \in [{"cnf0", "cnf1", "xcnf"} -> BOOLEAN]
        /\ file = IF given = "osdm2" THEN "xcnf"
                  ELSE IF given = "osdm1" /\ found["cnf1"] THEN "cnf1" ELSE "cnf0"
        /\ seen = {} \/ seen = {file} \cup (IF given = "osdm1" THEN {"cnf1"} ELSE {})
        /\ Look([f \in seen |-> found[f]])
        /\ opened' = IF seen = {} THEN "none" ELSE IF found[file] THEN file ELSE "missing"
  BY DEF OpenOsdm
<1>4. \A f \in seen : exists[f] = "yes" => found[f]
  BY <1>3 DEF Look, Answer
<1>5. CASE seen = {}
  BY <1>3, <1>5
<1>6. CASE seen # {} /\ menu.conf = "cnf0" /\ menu.slot = 0
  BY <1>1, <1>3, <1>4, <1>6 DEF Item, Chosen
<1>7. CASE seen # {} /\ menu.conf = "cnf1"
  BY <1>1, <1>3, <1>4, <1>7 DEF Item, Chosen
<1>8. CASE seen # {} /\ menu.conf = "xcnf"
  BY <1>1, <1>3, <1>4, <1>8 DEF Item, Chosen
<1> QED BY <1>1, <1>2, <1>5, <1>6, <1>7, <1>8 DEF Chosen, Confs

LEMMA OpenOsdmHddMenu ==
  ASSUME MenuInv, menu.conf # "none", OpenOsdmHdd
  PROVE  opened' = menu.conf
<1>1. menu.conf = "hcnf" /\ mounted = "none" /\ "apa" \in drivers
      /\ exists["hcnf"] = "yes" /\ exists["sysconf"] = "yes"
  BY DEF MenuInv, Handed, Chosen, Confs, OpenOsdmHdd
<1>2. PICK found \in [{"sysconf", "hcnf"} -> BOOLEAN], mounts \in BOOLEAN :
        /\ mounts = InitPFS("sysconf", found, TRUE)
        /\ Look([f \in (IF mounts THEN DOMAIN found ELSE {"sysconf"}) |-> found[f]])
        /\ mounts /\ found["hcnf"] => opened' = "hcnf"
  BY DEF OpenOsdmHdd, InitPFS, CanMount
<1>3. found["sysconf"]
  BY <1>1, <1>2 DEF Look, Answer
<1>4. mounts
  BY <1>1, <1>2, <1>3 DEF InitPFS, CanMount
<1>5. found["hcnf"]
  BY <1>1, <1>2, <1>4 DEF Look, Answer
<1> QED BY <1>1, <1>2, <1>4, <1>5

LEMMA LoadDiskMenu ==
  ASSUME MenuInv, menu.conf # "none", LoadDisk, pc' = "l_osdmhdd"
  PROVE  menu.slot = 9 /\ mounted' = "none" /\ "apa" \in drivers'
<1>1. given = Item(menu.slot) /\ current = {} /\ Chosen
  BY DEF MenuInv, Handed, LoadDisk
<1>2. given = "osdm9"
  BY <1>1 DEF Item, LoadDisk, Chosen, Confs
<1>3. menu.slot = 9
  BY <1>1, <1>2 DEF Item, Chosen, Confs
<1>4. \E ok \in BOOLEAN : LoadModules({"APA", "Basic", "CDROM"}, ok) /\ ok
  BY <1>2 DEF LoadDisk, ListFails
<1>5. ~Present({"APA", "Basic", "CDROM"})
  BY <1>1 DEF Present
<1>6. mounted' = "none" /\ drivers' = Served({"APA", "Basic", "CDROM"})
  BY <1>4, <1>5 DEF LoadModules
<1> QED BY <1>3, <1>6 DEF Served

LEMMA LauncherMenu ==
  ASSUME MenuInv, LauncherNext, UNCHANGED <<mbrVars, menu, gsmVars>>
  PROVE  MenuInv'
<1>1. pc \in LauncherPcs /\ pc' \in LauncherPcs \cup StartPcs /\ Kept
  BY LauncherRuns, LauncherGoes
<1>2. hint # "none" /\ hint' # "none" /\ menu' = menu
  BY <1>1, LauncherSteps DEF MenuInv, Programs
<1>3. Programs'
  BY <1>1, <1>2 DEF Programs, LauncherPcs, StartPcs, LoaderPcs
<1>4. menu.conf # "none" => Handed'
  BY <1>1, <1>2, LauncherSteps, LoadDiskMenu DEF Handed
<1>5. ItemFromMenu'
  BY <1>2, LauncherOpened, OpenOsdmMenu, OpenOsdmHddMenu DEF MenuInv, ItemFromMenu
<1> QED BY <1>1, <1>2, <1>3, <1>4, <1>5, KeptConfs, ChosenKept DEF MenuInv

\* The launcher is started with the item of the slot, or with another argument
\* by a program that has no configuration.
LEMMA StartedMenu ==
  ASSUME MenuInv, NEW arg0, NEW device, device \in {"mc", "APA", "XFROM"}, NEW flags0,
         LauncherMain(arg0, device, flags0),
         (Confs \cup {"sysconf"} \subseteq DOMAIN exists)',
         ({"slot", "conf"} \subseteq DOMAIN menu)',
         menu'.conf # "none" => Chosen' /\ arg0 = Item(menu'.slot)
  PROVE  MenuInv'
<1>1. /\ given' = arg0 /\ hint' = device /\ current' = {} /\ opened' = "none"
      /\ pc' = "l_main"
  BY DEF LauncherMain
<1>2. Programs'
  BY <1>1 DEF Programs, LauncherPcs
<1>3. menu'.conf # "none" => Handed'
  BY <1>1 DEF Handed
<1> QED BY <1>1, <1>2, <1>3 DEF MenuInv, ItemFromMenu

LEMMA LoadConfigMenu ==
  ASSUME MenuInv, LoadConfig, UNCHANGED launcherVars
  PROVE  MenuInv'
<1>1. hint = "none" /\ hint' = "none" /\ opened' = "none"
      /\ menu.slot \in {0, 1, 2} /\ menu.conf = "none"
  BY DEF MenuInv, Programs, LoadConfig, LauncherPcs, LoaderPcs, launcherVars
<1>2. PICK found \in [{"xcnf", "cnf0", "cnf1"} -> BOOLEAN],
           conf \in {"xcnf", "cnf0", "cnf1"} :
        /\ \E seen : Look([x \in seen |-> found[x]]) /\ (Opens(conf, found, mounted) => conf \in seen)
        /\ menu' = IF Opens(conf, found, mounted)
                     THEN [menu EXCEPT !.conf = conf, !.slot = SlotOf(@, conf)] ELSE menu
  <2>1. PICK found \in [{"xcnf", "cnf0", "cnf1"} -> BOOLEAN] :
          LET seen   == IF "xfrom" \in drivers THEN DOMAIN found ELSE {"cnf0", "cnf1"}
              first  == CardConf(menu.slot)
              second == IF menu.slot = 1 THEN "cnf0" ELSE "cnf1"
              conf   == IF Opens("xcnf", found, mounted) THEN "xcnf"
                        ELSE IF Opens(first, found, mounted) THEN first ELSE second
          IN /\ Look([f \in seen |-> found[f]])
             /\ menu' = IF Opens(conf, found, mounted)
                          THEN [menu EXCEPT !.conf = conf, !.slot = SlotOf(@, conf)] ELSE menu
    BY Zenon DEF LoadConfig
  <2> DEFINE seen == IF "xfrom" \in drivers THEN DOMAIN found ELSE {"cnf0", "cnf1"}
             conf == IF Opens("xcnf", found, mounted) THEN "xcnf"
                     ELSE IF Opens(CardConf(menu.slot), found, mounted) THEN CardConf(menu.slot)
                     ELSE IF menu.slot = 1 THEN "cnf0" ELSE "cnf1"
  <2>2. conf \in {"xcnf", "cnf0", "cnf1"}
    BY DEF CardConf
  <2>3. Opens("xcnf", found, mounted) => "xcnf" \in seen
    BY DEF Opens, DeviceOf, OnPfs, Home, Partitions
  <2>4. "cnf0" \in seen /\ "cnf1" \in seen
    OBVIOUS
  <2>5. /\ Look([x \in seen |-> found[x]])
        /\ menu' = IF Opens(conf, found, mounted)
                     THEN [menu EXCEPT !.conf = conf, !.slot = SlotOf(@, conf)] ELSE menu
    BY <2>1, Zenon
  <2> HIDE DEF seen
  <2>6. Opens(conf, found, mounted) => conf \in seen
    BY <2>3, <2>4 DEF CardConf
  <2> HIDE DEF conf
  <2> QED BY <2>2, <2>5, <2>6
<1>3. pc' = "m_osdr"
  BY DEF LoadConfig
<1>4. ({"slot", "conf"} \subseteq DOMAIN menu)'
  BY <1>2 DEF MenuInv
<1>5. Programs'
  BY <1>1, <1>3 DEF Programs, LauncherPcs
<1>6. (Confs \cup {"sysconf"} \subseteq DOMAIN exists)'
  BY <1>2, KeptLook, KeptConfs
<1>7. CASE Opens(conf, found, mounted)
  <2>1. menu'.conf = conf /\ menu'.slot = SlotOf(menu.slot, conf) /\ found[conf]
    BY <1>2, <1>7 DEF MenuInv, Opens
  <2>2. exists'[conf] = "yes"
    <3>1. PICK seen : Look([x \in seen |-> found[x]]) /\ conf \in seen
      BY <1>2, <1>7
    <3> QED BY <1>2, <2>1, <3>1 DEF Look, Answer, MenuInv, Confs
  <2>3. Chosen'
    BY <1>1, <2>1, <2>2 DEF Chosen, Confs, SlotOf, CardConf
  <2>4. Handed'
    BY <1>3 DEF Handed
  <2> QED BY <1>1, <1>4, <1>5, <1>6, <2>3, <2>4 DEF MenuInv, ItemFromMenu
<1>8. CASE menu' = menu
  BY <1>1, <1>4, <1>5, <1>6, <1>8 DEF MenuInv, ItemFromMenu
<1> QED BY <1>2, <1>7, <1>8

LEMMA LoadConfigHddMenu ==
  ASSUME MenuInv, LoadConfigHdd, UNCHANGED launcherVars
  PROVE  MenuInv'
<1>1. hint = "none" /\ hint' = "none" /\ opened' = "none"
      /\ menu.slot = 9 /\ menu.conf = "none"
  BY DEF MenuInv, Programs, LoadConfigHdd, LauncherPcs, LoaderPcs, launcherVars
<1>2. pc' = "m_system" \/ pc' = "m_recovery"
  BY DEF LoadConfigHdd
<1>3. Kept
  BY KeptLook DEF LoadConfigHdd
<1>4. menu' = menu \/ (menu'.conf = "hcnf" /\ menu'.slot = 9 /\ DOMAIN menu' = DOMAIN menu
                        /\ exists'["hcnf"] = "yes" /\ exists'["sysconf"] = "yes")
                   \/ (menu'.conf = "none" /\ menu'.slot = 9 /\ DOMAIN menu' = DOMAIN menu)
  BY <1>1 DEF LoadConfigHdd, CanMount, Look, Answer, MenuInv, Confs
<1>5. Programs'
  BY <1>1, <1>2, <1>4 DEF Programs, LauncherPcs
<1>6. menu'.conf # "none" => Chosen' /\ Handed'
  BY <1>1, <1>2, <1>4 DEF Chosen, Confs, Handed
<1> QED BY <1>1, <1>3, <1>4, <1>5, <1>6, KeptConfs DEF MenuInv, ItemFromMenu

LEMMA OsdStartMenu ==
  ASSUME MenuInv, LaunchOSDSYS \/ LaunchHddOsd, UNCHANGED launcherVars
  PROVE  MenuInv'
<1>1. hint = "none" /\ hint' = "none" /\ opened' = "none"
  BY DEF MenuInv, Programs, LaunchOSDSYS, LaunchHddOsd, LauncherPcs, LoaderPcs, launcherVars
<1>2. pc' \in {"m_osd", "exit", "m_recovery"} /\ Kept
  BY KeptLook, KeptSame DEF LaunchOSDSYS, LaunchHddOsd
<1>3. DOMAIN menu' = DOMAIN menu /\ menu'.slot = menu.slot /\ menu'.conf = menu.conf
  BY DEF LaunchOSDSYS, LaunchHddOsd, MenuInv
<1>4. Programs'
  BY <1>1, <1>2 DEF Programs, LauncherPcs
<1>5. menu'.conf # "none" => Chosen' /\ Handed'
  BY <1>2, <1>3 DEF MenuInv, Chosen, Handed, Kept
<1> QED BY <1>1, <1>2, <1>3, <1>4, <1>5, KeptConfs DEF MenuInv, ItemFromMenu

LEMMA LaunchMenu ==
  ASSUME MenuInv, HandleMenuEntry \/ LaunchUnlisted \/ LaunchPayload
  PROVE  MenuInv'
<1>1. PICK item : LaunchItem(item) /\ (menu' = NoMenu \/ (menu' = menu /\ item = Item(menu.slot)))
  BY DEF HandleMenuEntry, LaunchUnlisted, LaunchPayload, Item
<1>2. /\ LauncherMain(item, Hint, NoOpts) /\ Hint \in {"mc", "APA", "XFROM"}
      /\ DOMAIN exists' = DOMAIN exists
      /\ \A f \in Confs \cup {"sysconf"} : exists'[f] = exists[f]
  BY <1>1 DEF LaunchItem, Hint, MenuInv
<1>3. NoMenu.conf = "none" /\ {"slot", "conf"} \subseteq DOMAIN NoMenu
  BY DEF NoMenu
<1>4. menu'.conf # "none" => Chosen' /\ item = Item(menu'.slot)
  BY <1>1, <1>2, <1>3 DEF MenuInv, Chosen
<1>5. ({"slot", "conf"} \subseteq DOMAIN menu)' /\ (Confs \cup {"sysconf"} \subseteq DOMAIN exists)'
  BY <1>1, <1>2, <1>3 DEF MenuInv
<1> QED BY <1>2, <1>4, <1>5, StartedMenu

LEMMA OsdLeavesMenu == ASSUME MenuInv, OsdLeaves PROVE MenuInv'
<1>1. /\ menu' = NoMenu /\ pc' = "rom" /\ exists' = exists /\ hint' = hint
      /\ opened' = opened /\ pc = "m_osd"
  BY DEF OsdLeaves, launcherVars
<1>2. NoMenu.conf = "none" /\ {"slot", "conf"} \subseteq DOMAIN NoMenu
  BY DEF NoMenu
<1>3. hint = "none"
  BY <1>1 DEF MenuInv, Programs, LauncherPcs, LoaderPcs
<1> QED BY <1>1, <1>2, <1>3 DEF MenuInv, Programs, ItemFromMenu, LauncherPcs

LEMMA MenuMenu == ASSUME MenuInv, MenuNext PROVE MenuInv'
BY LoadConfigMenu, LoadConfigHddMenu, OsdStartMenu, LaunchMenu, OsdLeavesMenu DEF MenuNext

\* What a new program knows of files does not matter: none of them is chosen.
LEMMA ForgottenConfs ==
  ASSUME MenuInv, Forgotten
  PROVE  (Confs \cup {"sysconf"} \subseteq DOMAIN exists)'
BY DEF MenuInv, Forgotten

LEMMA StartMenuMenu == ASSUME MenuInv, StartMenu PROVE MenuInv'
<1>1. hint' = "none" /\ opened' = "none" /\ Forgotten
  BY DEF StartMenu, MenuInv, Programs, launcherVars
<1>2. /\ {"slot", "conf"} \subseteq DOMAIN menu' /\ menu'.conf = "none"
      /\ pc' \in {"m_config", "m_sysconf", "m_recovery"}
      /\ pc' = "m_config" => menu'.slot \in {0, 1, 2}
      /\ pc' = "m_sysconf" => menu'.slot = 9
  <2>1. CASE asked.file \in {"osdmenu", "mc0", "mc1"} /\ EnterOSDMenu(asked.file, psxHw)
    BY <2>1 DEF EnterOSDMenu, NoMenu
  <2>2. CASE \E short : EnterHOSDMenu(short)
    BY <2>2 DEF EnterHOSDMenu, NoMenu
  <2> QED BY <2>1, <2>2, Zenon DEF StartMenu
<1> QED BY <1>1, <1>2, ForgottenConfs DEF MenuInv, Programs, ItemFromMenu, LauncherPcs

LEMMA StartLauncherMenu == ASSUME MenuInv, StartLauncher PROVE MenuInv'
<1>1. menu' = menu /\ menu.conf = "none" /\ Forgotten
  BY DEF StartLauncher, MenuInv, Programs
<1>2. PICK arg0, device, flags0 :
        device \in {"mc", "APA", "XFROM"} /\ LauncherMain(arg0, device, flags0)
  BY DEF StartLauncher
<1>3. ({"slot", "conf"} \subseteq DOMAIN menu)'
  BY <1>1 DEF MenuInv
<1> QED BY <1>1, <1>2, <1>3, ForgottenConfs, StartedMenu

LEMMA StartTitleMenu == ASSUME MenuInv, StartTitle PROVE MenuInv'
<1>1. /\ menu' = NoMenu /\ pc' = "title" /\ hint' = "none" /\ opened' = "none"
      /\ Forgotten
  BY Zenon DEF StartTitle
<1>2. NoMenu.conf = "none" /\ {"slot", "conf"} \subseteq DOMAIN NoMenu
  BY DEF NoMenu
<1> QED BY <1>1, <1>2, ForgottenConfs DEF MenuInv, Programs, ItemFromMenu, LauncherPcs

LEMMA MenuStutter == ASSUME MenuInv, UNCHANGED vars PROVE MenuInv'
<1>1. /\ pc' = pc /\ exists' = exists /\ mounted' = mounted /\ drivers' = drivers
      /\ menu' = menu /\ hint' = hint /\ opened' = opened /\ given' = given
      /\ current' = current
  BY DEF vars, consoleVars, launcherVars
<1> QED BY <1>1 DEF MenuInv, Programs, Chosen, Handed, ItemFromMenu

LEMMA MenuStep == ASSUME MenuInv, [Next]_vars PROVE MenuInv'
<1>1. CASE Next
  BY <1>1, MbrMenu, LauncherMenu, LoaderMenu, MenuMenu, EgsmMenu, StartMenuMenu,
     StartLauncherMenu, StartTitleMenu, Zenon DEF Next
<1> QED BY <1>1, MenuStutter

(* An item of the menu is looked up in the file the menu was made from,    *)
(* whatever is on the cards, in the XFROM and on the disk                  *)
(* (settings.c:88-113, handler_osdm.c:55-97).                              *)
THEOREM ItemFromMenuAlways == Spec => []ItemFromMenu
<1>1. MenuInv => ItemFromMenu
  BY DEF MenuInv
<1> QED BY <1>1, MenuInvInit, MenuStep, PTL DEF Spec

-----------------------------------------------------------------------------
(* What the loader reads from its arguments *)

\* Reading the first letters of la, when f is it.
Reads(f, list, la, m) ==
  f = [n \in 0 .. m |-> IF n = 0 THEN Unread(list) ELSE ReadLetter(f[n - 1], la[n])]

LEMMA ReadsExists ==
  ASSUME NEW list, NEW la, NEW m \in Nat
  PROVE  \E f : Reads(f, list, la, m)
<1> DEFINE bad == {k \in Nat : ~ \E f : Reads(f, list, la, k)}
<1> SUFFICES ASSUME bad # {} PROVE FALSE
  OBVIOUS
<1>1. PICK k \in bad : \A j \in bad : k <= j
  BY Smallest
<1>2. k # 0
  <2> DEFINE f == [n \in 0 .. 0 |-> Unread(list)]
  <2>1. f = [n \in 0 .. 0 |-> IF n = 0 THEN Unread(list) ELSE ReadLetter(f[n - 1], la[n])]
    OBVIOUS
  <2> QED BY <2>1 DEF Reads
<1>3. k - 1 \in Nat /\ k - 1 \notin bad
  BY <1>1, <1>2
<1>4. PICK f : Reads(f, list, la, k - 1)
  BY <1>3
<1> DEFINE g == [n \in 0 .. k |-> IF n = k THEN ReadLetter(f[k - 1], la[k]) ELSE f[n]]
<1>5. \A n \in 0 .. k : g[n] = IF n = 0 THEN Unread(list) ELSE ReadLetter(g[n - 1], la[n])
  <2> TAKE n \in 0 .. k
  <2>1. CASE n = k
    BY <1>2, <2>1
  <2>2. CASE n # k
    <3>1. g[n] = f[n] /\ (n # 0 => g[n - 1] = f[n - 1])
      BY <2>2
    <3> QED BY <1>3, <1>4, <2>2, <3>1 DEF Reads
  <2> QED BY <2>1, <2>2
<1>6. Reads(g, list, la, k)
  BY <1>5 DEF Reads
<1> QED BY <1>1, <1>6

LEMMA ReadArgsReads ==
  ASSUME NEW list, NEW la, Len(la) \in Nat
  PROVE  \E f : Reads(f, list, la, Len(la)) /\ ReadArgs([list |-> list, la |-> la]) = f[Len(la)]
<1> DEFINE a == [list |-> list, la |-> la]
           R  == CHOOSE f : Reads(f, list, la, Len(la))
<1>1. Reads(R, list, la, Len(la))
  BY ReadsExists
<1>2. ReadArgs(a) = R[Len(la)]
  BY Zenon DEF ReadArgs, Reads
<1> QED BY <1>1, <1>2

LEMMA ReadsSame ==
  ASSUME NEW list, NEW la, NEW lb, NEW m \in Nat, NEW l \in Nat, m <= l,
         \A n \in 1 .. m : la[n] = lb[n],
         NEW f, NEW g, Reads(f, list, la, m), Reads(g, list, lb, l)
  PROVE  f[m] = g[m]
<1> DEFINE bad == {k \in 0 .. m : f[k] # g[k]}
<1> SUFFICES ASSUME bad # {} PROVE FALSE
  OBVIOUS
<1>0. bad \in SUBSET Nat
  OBVIOUS
<1>1. PICK k \in bad : \A j \in bad : k <= j
  BY <1>0, Smallest, Zenon
<1>2. k # 0
  <2>1. f[0] = Unread(list) /\ g[0] = Unread(list)
    BY DEF Reads
  <2> QED BY <2>1
<1>3. k - 1 \in 0 .. m /\ f[k - 1] = g[k - 1]
  BY <1>1, <1>2
<1>4. f[k] = ReadLetter(f[k - 1], la[k])
  BY <1>2, <1>3 DEF Reads
<1>5. g[k] = ReadLetter(g[k - 1], lb[k])
  BY <1>2, <1>3 DEF Reads
<1> QED BY <1>2, <1>3, <1>4, <1>5

LEMMA ReadEmpty ==
  ASSUME NEW list
  PROVE  ReadArgs([list |-> list, la |-> <<>>]) = Unread(list)
<1>1. PICK f : Reads(f, list, <<>>, 0) /\ ReadArgs([list |-> list, la |-> <<>>]) = f[0]
  BY ReadArgsReads
<1> QED BY <1>1 DEF Reads

\* One letter more is read after those before it.
LEMMA ReadMore ==
  ASSUME NEW S, NEW list, NEW la \in Seq(S), NEW c \in S
  PROVE  ReadArgs([list |-> list, la |-> Append(la, c)]) =
         ReadLetter(ReadArgs([list |-> list, la |-> la]), c)
<1> DEFINE l  == Len(la)
           lb == Append(la, c)
<1>1. l \in Nat /\ Len(lb) = l + 1 /\ lb[l + 1] = c /\ \A n \in 1 .. l : la[n] = lb[n]
  OBVIOUS
<1> HIDE DEF lb
<1>2. PICK f : Reads(f, list, la, l) /\ ReadArgs([list |-> list, la |-> la]) = f[l]
  BY <1>1, ReadArgsReads
<1>3. PICK g : Reads(g, list, lb, l + 1) /\ ReadArgs([list |-> list, la |-> lb]) = g[l + 1]
  BY <1>1, ReadArgsReads
<1> HIDE DEF l
<1>4. f[l] = g[l]
  BY <1>1, <1>2, <1>3, ReadsSame
<1>5. g[l + 1] = ReadLetter(g[l], lb[l + 1])
  BY <1>1, <1>3 DEF Reads
<1> QED BY <1>1, <1>2, <1>3, <1>4, <1>5 DEF lb

LetterSet == {"A", "N", "D", "I", "E", "G"}

LEMMA ReadIf ==
  ASSUME NEW list, NEW la \in Seq(LetterSet), NEW cond \in BOOLEAN, NEW c \in LetterSet
  PROVE  /\ la \o If(cond, <<c>>) \in Seq(LetterSet)
         /\ ReadArgs([list |-> list, la |-> la \o If(cond, <<c>>)]) =
              LET r == ReadArgs([list |-> list, la |-> la])
              IN IF cond THEN ReadLetter(r, c) ELSE r
<1>1. CASE cond
  <2>1. la \o If(cond, <<c>>) = Append(la, c)
    BY <1>1 DEF If
  <2>2. Append(la, c) \in Seq(LetterSet)
    OBVIOUS
  <2>3. ReadArgs([list |-> list, la |-> Append(la, c)]) =
          ReadLetter(ReadArgs([list |-> list, la |-> la]), c)
    BY ReadMore
  <2> QED BY <1>1, <2>1, <2>2, <2>3, Zenon
<1>2. CASE ~cond
  <2>1. la \o If(cond, <<c>>) = la
    BY <1>2 DEF If
  <2> QED BY <1>2, <2>1, Zenon
<1> QED BY <1>1, <1>2, Zenon

Words == ArgKinds \cup {"-mbrboot", "-psxmode", "arg"}
OptionsOK(o) ==
  /\ DOMAIN o = {"file", "args", "elf", "ioprp", "gsm", "dev9", "skip", "checked"}
  /\ o.args \in Seq(Words)
  /\ o.elf \in BOOLEAN /\ o.ioprp \in BOOLEAN /\ o.gsm \in BOOLEAN /\ o.skip \in BOOLEAN
  /\ o.dev9 \in {"All", "HDD", "None"}
  /\ o.gsm => ~o.elf /\ ~o.ioprp

Parsed(o) ==
  [list |-> <<o.file>> \o o.args, elf |-> IF o.elf THEN "elf" ELSE "none",
   ioprp |-> IF o.ioprp THEN "ioprp" ELSE "none", gsm |-> IF o.gsm THEN "gsm" ELSE "none",
   dev9 |-> o.dev9, skip |-> o.skip]

\* A value put at the end of the list is the one that is taken off it.
LEMMA TakeLast ==
  ASSUME NEW s, Len(s) \in Nat, DOMAIN s = 1 .. Len(s), NEW S, s \in Seq(S), NEW x
  PROVE  Last(s \o <<x>>) = x /\ Front(s \o <<x>>) = s
<1> DEFINE T == S \cup {x}
<1>1. s \in Seq(T) /\ <<x>> \in Seq(T)
  OBVIOUS
<1>2. s \o <<x>> = Append(s, x)
  BY <1>1
<1>3. Len(s \o <<x>>) = Len(s) + 1
  BY <1>1
<1> QED BY <1>1, <1>2, <1>3 DEF Last, Front

LEMMA Agreement ==
  ASSUME NEW o, OptionsOK(o)
  PROVE  ReadArgs(BuildArgs(o)) = Parsed(o)
<1> DEFINE base == <<o.file>> \o o.args
           list == base \o Values(o)
           la1  == <<>> \o If(o.skip, <<"A">>)
           la2  == la1 \o If(o.dev9 = "HDD", <<"N">>)
           la3  == la2 \o If(o.dev9 = "None", <<"D">>)
           la4  == la3 \o If(o.ioprp, <<"I">>)
           la5  == la4 \o If(o.elf, <<"E">>)
           la6  == la5 \o If(o.gsm, <<"G">>)
           r(la) == ReadArgs([list |-> list, la |-> la])
           All  == {o.file, "elf", "ioprp", "gsm"} \cup Words
<1>1. la6 = Letters(o)
  <2>1. la1 = If(o.skip, <<"A">>)
    BY DEF If
  <2> QED BY <2>1, Zenon DEF Letters
<1>2. BuildArgs(o) = [list |-> list, la |-> la6]
  BY <1>1, Zenon DEF BuildArgs
<1>3. base \in Seq(All)
  BY DEF OptionsOK
<1> HIDE DEF base, list, All
<1>4. r(<<>>) = Unread(list)
  BY ReadEmpty
<1>5. /\ la1 \in Seq(LetterSet)
      /\ r(la1) = IF o.skip THEN ReadLetter(r(<<>>), "A") ELSE r(<<>>)
  <2>1. <<>> \in Seq(LetterSet) /\ "A" \in LetterSet
    BY DEF LetterSet
  <2>2. o.skip \in BOOLEAN
    BY Zenon DEF OptionsOK
  <2> QED BY <2>1, <2>2, ReadIf, Zenon
<1> HIDE DEF la1
<1>6. /\ la2 \in Seq(LetterSet)
      /\ r(la2) = IF o.dev9 = "HDD" THEN ReadLetter(r(la1), "N") ELSE r(la1)
  BY <1>5, ReadIf DEF OptionsOK, LetterSet
<1> HIDE DEF la2
<1>7. /\ la3 \in Seq(LetterSet)
      /\ r(la3) = IF o.dev9 = "None" THEN ReadLetter(r(la2), "D") ELSE r(la2)
  BY <1>6, ReadIf DEF OptionsOK, LetterSet
<1> HIDE DEF la3
<1>8. /\ la4 \in Seq(LetterSet)
      /\ r(la4) = IF o.ioprp THEN ReadLetter(r(la3), "I") ELSE r(la3)
  <2>1. la3 \in Seq(LetterSet) /\ "I" \in LetterSet
    BY <1>7 DEF LetterSet
  <2>2. o.ioprp \in BOOLEAN
    BY Zenon DEF OptionsOK
  <2> QED BY <2>1, <2>2, ReadIf, Zenon
<1> HIDE DEF la4
<1>9. /\ la5 \in Seq(LetterSet)
      /\ r(la5) = IF o.elf THEN ReadLetter(r(la4), "E") ELSE r(la4)
  <2>1. la4 \in Seq(LetterSet) /\ "E" \in LetterSet
    BY <1>8 DEF LetterSet
  <2>2. o.elf \in BOOLEAN
    BY Zenon DEF OptionsOK
  <2> QED BY <2>1, <2>2, ReadIf, Zenon
<1> HIDE DEF la5
<1>10. r(la6) = IF o.gsm THEN ReadLetter(r(la5), "G") ELSE r(la5)
  <2>1. la5 \in Seq(LetterSet) /\ "G" \in LetterSet
    BY <1>9 DEF LetterSet
  <2>2. o.gsm \in BOOLEAN
    BY Zenon DEF OptionsOK
  <2> QED BY <2>1, <2>2, ReadIf, Zenon
<1> HIDE DEF la6, r
<1> DEFINE Rec(l, e, i, g) == [list |-> l, elf |-> e, ioprp |-> i, gsm |-> g,
                               dev9 |-> o.dev9, skip |-> o.skip]
<1>11. r(la3) = Rec(list, "none", "none", "none")
  <2> DEFINE R(skip, dev9) == [list |-> list, elf |-> "none", ioprp |-> "none", gsm |-> "none",
                               dev9 |-> dev9, skip |-> skip]
  <2>1. r(<<>>) = R(FALSE, "All")
    BY <1>4 DEF Unread
  <2>2. r(la1) = R(o.skip, "All")
    <3>1. CASE o.skip
      <4>1. o.skip = TRUE
        BY <3>1, Zenon DEF OptionsOK
      <4>2. ReadLetter(R(FALSE, "All"), "A") = R(TRUE, "All")
        BY DEF ReadLetter
      <4> QED BY <1>5, <2>1, <4>1, <4>2, Zenon
    <3>2. CASE ~o.skip
      <4>1. o.skip = FALSE
        BY <3>2, Zenon DEF OptionsOK
      <4> QED BY <1>5, <2>1, <3>2, <4>1, Zenon
    <3> QED BY <3>1, <3>2
  <2>3. ReadLetter(R(o.skip, "All"), "N") = R(o.skip, "HDD")
        /\ ReadLetter(R(o.skip, "All"), "D") = R(o.skip, "None")
    BY DEF ReadLetter
  <2> HIDE DEF R
  <2>4. r(la3) = R(o.skip, o.dev9)
    BY <1>6, <1>7, <2>2, <2>3 DEF OptionsOK
  <2> QED BY <2>4 DEF R
<1>12. \A l, e, i, g : ReadLetter(Rec(l, e, i, g), "I") = Rec(Front(l), e, Last(l), g)
  <2> TAKE l, e, i, g
  <2>1. ReadLetter(Rec(l, e, i, g), "I") = Take(Rec(l, e, i, g), "ioprp")
    BY DEF ReadLetter
  <2>2. Take(Rec(l, e, i, g), "ioprp") = [Rec(l, e, i, g) EXCEPT !.ioprp = Last(l), !.list = Front(l)]
    BY DEF Take
  <2> QED BY <2>1, <2>2
<1>13. \A l, e, i, g : ReadLetter(Rec(l, e, i, g), "E") = Rec(Front(l), Last(l), i, g)
  <2> TAKE l, e, i, g
  <2>1. ReadLetter(Rec(l, e, i, g), "E") = Take(Rec(l, e, i, g), "elf")
    BY DEF ReadLetter
  <2>2. Take(Rec(l, e, i, g), "elf") = [Rec(l, e, i, g) EXCEPT !.elf = Last(l), !.list = Front(l)]
    BY DEF Take
  <2> QED BY <2>1, <2>2
<1>14. \A l, e, i, g : ReadLetter(Rec(l, e, i, g), "G") = Rec(Front(l), e, i, Last(l))
  <2> TAKE l, e, i, g
  <2>1. ReadLetter(Rec(l, e, i, g), "G") = Take(Rec(l, e, i, g), "gsm")
    BY DEF ReadLetter
  <2>2. Take(Rec(l, e, i, g), "gsm") = [Rec(l, e, i, g) EXCEPT !.gsm = Last(l), !.list = Front(l)]
    BY DEF Take
  <2> QED BY <2>1, <2>2
<1>15. Parsed(o) = Rec(base, IF o.elf THEN "elf" ELSE "none",
                       IF o.ioprp THEN "ioprp" ELSE "none", IF o.gsm THEN "gsm" ELSE "none")
  BY Zenon DEF Parsed, base
<1> HIDE DEF Rec
<1>16. list = base \o Values(o)
  BY DEF list
<1>17. \A s \in Seq(All), x \in All :
          s \o <<x>> \in Seq(All) /\ Last(s \o <<x>>) = x /\ Front(s \o <<x>>) = s
  <2> TAKE s \in Seq(All), x \in All
  <2>1. Len(s) \in Nat /\ DOMAIN s = 1 .. Len(s) /\ s \o <<x>> \in Seq(All)
    OBVIOUS
  <2> QED BY <2>1, TakeLast, Zenon
<1>18. "elf" \in All /\ "ioprp" \in All /\ "gsm" \in All
  BY DEF All
<1>19. CASE o.gsm
  <2>1. ~o.elf /\ ~o.ioprp /\ list = base \o <<"gsm">>
    BY <1>3, <1>16, <1>19 DEF OptionsOK, Values, If
  <2>2. r(la6) = Rec(base, "none", "none", "gsm")
    BY <1>3, <1>8, <1>9, <1>10, <1>11, <1>14, <1>17, <1>18, <1>19, <2>1
  <2> QED BY <1>2, <1>15, <1>19, <2>1, <2>2 DEF r
<1>20. CASE ~o.gsm /\ o.elf /\ o.ioprp
  <2>1. list = (base \o <<"elf">>) \o <<"ioprp">>
    BY <1>3, <1>16, <1>20 DEF Values, If
  <2>2. r(la4) = Rec(base \o <<"elf">>, "none", "ioprp", "none")
    <3>1. base \o <<"elf">> \in Seq(All)
      BY <1>3, <1>17, <1>18, Zenon
    <3>2. Last(list) = "ioprp" /\ Front(list) = base \o <<"elf">>
      BY <1>17, <1>18, <2>1, <3>1, Zenon
    <3>3. r(la4) = ReadLetter(Rec(list, "none", "none", "none"), "I")
      BY <1>8, <1>11, <1>20, Zenon
    <3> QED BY <1>12, <3>2, <3>3, Zenon
  <2>3. r(la6) = Rec(base, "elf", "ioprp", "none")
    BY <1>3, <1>9, <1>10, <1>13, <1>17, <1>18, <1>20, <2>2
  <2> QED BY <1>2, <1>15, <1>20, <2>3 DEF r
<1>21. CASE ~o.gsm /\ o.elf /\ ~o.ioprp
  <2>1. list = base \o <<"elf">>
    BY <1>3, <1>16, <1>21 DEF Values, If
  <2>2. r(la6) = Rec(base, "elf", "none", "none")
    BY <1>3, <1>8, <1>9, <1>10, <1>11, <1>13, <1>17, <1>18, <1>21, <2>1
  <2> QED BY <1>2, <1>15, <1>21, <2>2 DEF r
<1>22. CASE ~o.gsm /\ ~o.elf /\ o.ioprp
  <2>1. list = base \o <<"ioprp">>
    BY <1>3, <1>16, <1>22 DEF Values, If
  <2>2. r(la6) = Rec(base, "none", "ioprp", "none")
    BY <1>3, <1>8, <1>9, <1>10, <1>11, <1>12, <1>17, <1>18, <1>22, <2>1
  <2> QED BY <1>2, <1>15, <1>22, <2>2 DEF r
<1>23. CASE ~o.gsm /\ ~o.elf /\ ~o.ioprp
  <2>1. list = base
    BY <1>3, <1>16, <1>23 DEF Values, If
  <2>2. r(la6) = Rec(base, "none", "none", "none")
    BY <1>8, <1>9, <1>10, <1>11, <1>23, <2>1
  <2> QED BY <1>2, <1>15, <1>23, <2>2 DEF r
<1> QED BY <1>19, <1>20, <1>21, <1>22, <1>23

LEMMA HeardIsMeant ==
  ASSUME NEW o, OptionsOK(o)
  PROVE  Heard(Parsed(o)) = Meant(o)
<1> DEFINE e == IF o.elf THEN "elf" ELSE "none"
           i == IF o.ioprp THEN "ioprp" ELSE "none"
           g == IF o.gsm THEN "gsm" ELSE "none"
           p == [list |-> <<o.file>> \o o.args, elf |-> e, ioprp |-> i, gsm |-> g,
                 dev9 |-> o.dev9, skip |-> o.skip]
<1>1. Parsed(o) = p
  BY Zenon DEF Parsed
<1>2. Answer(e = "elf") = Answer(o.elf)
  BY DEF Answer
<1>3. Answer(i = "ioprp") = Answer(o.ioprp)
  BY DEF Answer
<1>4. Answer(g = "gsm") = Answer(o.gsm)
  BY DEF Answer
<1> HIDE DEF e, i, g
<1>5. Heard(p) = [list |-> <<o.file>> \o o.args, elf |-> Answer(e = "elf"),
                  ioprp |-> Answer(i = "ioprp"), gsm |-> Answer(g = "gsm"),
                  dev9 |-> o.dev9, skip |-> o.skip]
  <2> DEFINE p1 == [p EXCEPT !.elf = Answer(e = "elf")]
             p2 == [p1 EXCEPT !.ioprp = Answer(i = "ioprp")]
             p3 == [p2 EXCEPT !.gsm = Answer(g = "gsm")]
  <2>1. p.elf = e /\ p1.ioprp = i /\ p2.gsm = g
    OBVIOUS
  <2>2. Heard(p) = p3
    BY <2>1 DEF Heard
  <2> QED BY <2>2
<1> QED BY <1>1, <1>2, <1>3, <1>4, <1>5, Zenon DEF Meant

\* What the loader uses of what it read.
LEMMA WhatIsRead ==
  ASSUME NEW o, OptionsOK(o)
  PROVE  LET r == ReadArgs(BuildArgs(o)) IN
           /\ Heard(r) = Meant(o)
           /\ (r.elf = "none") = ~o.elf /\ (r.ioprp = "none") = ~o.ioprp
           /\ (r.gsm = "none") = ~o.gsm
           /\ Head(r.list) = o.file /\ r.list = <<o.file>> \o o.args
<1>1. ReadArgs(BuildArgs(o)) = Parsed(o)
  BY Agreement
<1>2. Heard(Parsed(o)) = Meant(o)
  BY HeardIsMeant
<1>3. /\ (Parsed(o).elf = "none") = ~o.elf /\ (Parsed(o).ioprp = "none") = ~o.ioprp
      /\ (Parsed(o).gsm = "none") = ~o.gsm
      /\ Parsed(o).list = <<o.file>> \o o.args
  BY DEF Parsed
<1>4. Head(<<o.file>> \o o.args) = o.file
  BY DEF OptionsOK
<1> QED BY <1>1, <1>2, <1>3, <1>4, Zenon

-----------------------------------------------------------------------------
(* What stays mounted, and what is handed to the loader *)

Known == Files \cup Partitions \subseteq DOMAIN exists

\* Where the MBR is before it acts on a button, what it does for one, and
\* where the system partition is mounted.
EarlyPcs == {"init", "args", "fsck", "config", "dispatch"}
PathPcs  == {"entry", "next", "handle", "mounthosd", "mountxosd", "hosdsys", "xosd",
             "osdmenu", "bbn", "file"}
HomePcs  == {"hosdsys", "xosd", "osdhosdsys", "osdxosd"}

\* startXOSD() has failed for a button.
LeftByXOSD == psx /\ mounted = "system" /\ trigger # "none"

MbrMounts ==
  /\ pc \in EarlyPcs => mounted = "none"
  /\ pc \in HomePcs => mounted = "system" /\ exists["system"] = "yes"
  /\ pc \in MbrPcs \ (EarlyPcs \cup HomePcs \cup {"lines", "ps2disc"}) => mounted = "none" \/ LeftByXOSD
  /\ pc \in {"mountxosd", "xosd"} => psx

PathEntry == [trigger : Triggers, paths : Seq(Nat), args : Seq(ArgKinds)]
MbrPaths ==
  /\ after \in {"args", "paths"} /\ (after = "paths" => trigger # "none")
  /\ pc \in PathPcs => after = "paths"
  /\ pc \in {"init", "args", "fsck", "config"} \cup MenuPcs \cup LauncherPcs => lines = 0
  /\ DOMAIN at = {"e", "n", "kind", "file"} /\ at.file # "hosdmenu"
  /\ paths \in Seq(PathEntry)
  /\ lines \in Nat
  /\ pc \in (PathPcs \ {"entry"}) \cup {"patinfo"} /\ after = "paths" => at.e \in DOMAIN paths

\* A file that was found can be found again.
Findable ==
  asked.checked /\ asked.file \in Files /\ ~asked.elf =>
    /\ exists[asked.file] = "yes"
    /\ psx \/ DeviceOf(asked.file) \in drivers
    /\ OnPfs(asked.file) =>
         /\ exists[Home[asked.file]] = "yes"
         /\ pc = "loader" => mounted = "none"
         /\ pc = "loading" => mounted = Home[asked.file]

\* HOSDMenu is told to use the drivers of the MBR when they are there.
HosdAsked ==
  asked.file = "hosdmenu" =>
    asked.args = <<>> \/ (asked.args = <<"-mbrboot">> /\ "apa" \in drivers)

Handing ==
  pc \in LoaderPcs \cup {"app"} =>
    /\ OptionsOK(asked) /\ handed = BuildArgs(asked)
    /\ HosdAsked
    /\ pc # "app" => Findable
    /\ pc = "app" => mounted = "none"

MenuMounts ==
  /\ pc \in MenuPcs => mounted = "none"
  /\ pc \in {"m_sysconf", "m_system"} => "apa" \in drivers
  /\ DOMAIN menu = {"slot", "conf", "short", "psx"}

OptsOK ==
  /\ DOMAIN opts = {"gsm", "skip", "dev9", "patinfo"}
  /\ opts.gsm \in BOOLEAN /\ opts.skip \in BOOLEAN /\ opts.patinfo \in BOOLEAN
  /\ opts.dev9 \in {"All", "HDD", "None"}

\* startCDROM() has failed with the configuration's partition mounted.
HeldByDisc == mounted = "sysconf" /\ hint = "APA"

LauncherMounts ==
  /\ OptsOK
  /\ pc \in {"l_main", "l_osdmhdd", "l_quickhdd"} => mounted = "none" /\ target = "none"
  /\ pc \in {"l_cdinit", "l_dkwdrv", "l_disc"} => target \in {"none", "cdrom"}
  /\ pc \in LauncherPcs => mounted = "none" \/ HeldByDisc \/ (pc = "l_next" /\ left = 0)
  /\ pc = "l_probe" => current \cap DevicesOf(target) # {}

BootInv ==
  /\ Known /\ MbrMounts /\ MbrPaths /\ Handing /\ MenuMounts /\ LauncherMounts
  /\ HandOver /\ FallbackHonest /\ MissHonest

-----------------------------------------------------------------------------
(* Lemmas about files *)

LEMMA KnownKept == ASSUME Known, Kept PROVE Known'
BY DEF Known, Kept

LEMMA Seen ==
  ASSUME Known, NEW found, Look(found), NEW f \in DOMAIN found, f \in Files \cup Partitions
  PROVE  /\ exists'[f] = Answer(found[f])
         /\ exists[f] = "yes" => found[f]
BY DEF Known, Look, Answer

LEMMA SeenYes ==
  ASSUME Known, NEW found, Look(found), NEW f \in DOMAIN found, f \in Files \cup Partitions
  PROVE  /\ found[f] => exists'[f] = "yes"
         /\ ~found[f] => exists'[f] = "no"
         /\ exists[f] = "yes" => exists'[f] = "yes" /\ found[f]
BY DEF Known, Look, Answer

LEMMA Homes ==
  /\ \A f \in {"hosdsys", "hosdmenu", "osdboot", "xosd", "fsck", "dkwdrv", "dnas", "osdimage"} :
        f \in Files /\ Home[f] = "system" /\ OnPfs(f) /\ DeviceOf(f) = "apa"
  /\ \A f \in {"conf", "hcnf"} : f \in Files /\ Home[f] = "sysconf" /\ OnPfs(f) /\ DeviceOf(f) = "apa"
  /\ "pfs" \in Files /\ Home["pfs"] = "part" /\ OnPfs("pfs") /\ DeviceOf("pfs") = "apa"
  /\ \A f \in {"mc0", "mc1", "cnf0", "cnf1"} : f \in Files /\ ~OnPfs(f) /\ DeviceOf(f) = "mc"
  /\ \A f \in {"xfrom", "xconf", "xdkwdrv", "osdmenu", "xcnf"} :
        f \in Files /\ ~OnPfs(f) /\ DeviceOf(f) = "xfrom"
  /\ "ata" \in Files /\ ~OnPfs("ata") /\ DeviceOf("ata") = "ata"
  /\ \A f \in {"unit0", "usb0", "usb1"} : f \in Files /\ ~OnPfs(f) /\ DeviceOf(f) = "usb"
  /\ "udpfs" \in Files /\ ~OnPfs("udpfs") /\ DeviceOf("udpfs") = "udpfs"
  /\ {"system", "sysconf", "part"} \subseteq Partitions
  /\ \A f \in {"disc", "ps1vn", "part", "kelf", "none", "system", "embedded", "cdrom", "dvd", "mc?",
               "patinfo", "$HOSDSYS", "$XOSD", "$OSDMENU", "$PSBBN"} : f \notin Files
BY DEF Files, Home, Partitions, OnPfs, DeviceOf

-----------------------------------------------------------------------------
(* Leaving for the loader *)

\* What a caller of loadELF() owes.
Owed(o) ==
  /\ OptionsOK(o)
  /\ o.file = "hosdmenu" => o.args = <<>> \/ (o.args = <<"-mbrboot">> /\ "apa" \in drivers')
  /\ o.checked /\ o.file \in Files /\ ~o.elf =>
       /\ exists'[o.file] = "yes"
       /\ psx' \/ DeviceOf(o.file) \in drivers'
       /\ OnPfs(o.file) => exists'[Home[o.file]] = "yes" /\ mounted' = "none"

LEMMA LoadHands == ASSUME NEW o, LoadELF(o), Owed(o) PROVE Handing'
<1>1. pc' = "loader" /\ asked' = o /\ handed' = BuildArgs(o)
  BY DEF LoadELF
<1>2. OptionsOK(asked)' /\ handed' = BuildArgs(asked')
  BY <1>1, Zenon DEF Owed, OptionsOK
<1>3. HosdAsked'
  BY <1>1 DEF Owed, HosdAsked
<1>4. Findable'
  <2> SUFFICES ASSUME o.checked, o.file \in Files, ~o.elf
               PROVE  /\ exists'[o.file] = "yes"
                      /\ psx' \/ DeviceOf(o.file) \in drivers'
                      /\ OnPfs(o.file) =>
                           /\ exists'[Home[o.file]] = "yes"
                           /\ pc' = "loader" => mounted' = "none"
                           /\ pc' = "loading" => mounted' = Home[o.file]
    BY <1>1, Zenon DEF Findable
  <2> QED BY <1>1 DEF Owed
<1> QED BY <1>1, <1>2, <1>3, <1>4, Zenon DEF Handing

LEMMA PlainOptions ==
  ASSUME NEW file, NEW checked
  PROVE  /\ OptionsOK(Options(file, checked))
         /\ Options(file, checked).file = file /\ Options(file, checked).checked = checked
         /\ Options(file, checked).elf = FALSE /\ Options(file, checked).args = <<>>
BY DEF Options, OptionsOK

\* A program of which only the options are at stake.
LEMMA OwedFree ==
  ASSUME NEW o, OptionsOK(o), o.file # "hosdmenu", o.file \notin Files \/ ~o.checked
  PROVE  Owed(o)
BY DEF Owed

-----------------------------------------------------------------------------
(* The MBR *)

MbrHolds == MbrMounts /\ MbrPaths /\ Handing /\ OsdHonest
LEMMA NotHanding == ASSUME pc' \notin LoaderPcs \cup {"app"} PROVE Handing'
BY DEF Handing

LEMMA EntryTyped ==
  ASSUME NEW s \in Seq(PathEntry), NEW e, NEW x
  PROVE  /\ x \in Nat => [s EXCEPT ![e].paths = Append(@, x)] \in Seq(PathEntry)
         /\ x \in ArgKinds => [s EXCEPT ![e].args = Append(@, x)] \in Seq(PathEntry)
<1> DEFINE p == [s EXCEPT ![e].paths = Append(@, x)]
           a == [s EXCEPT ![e].args = Append(@, x)]
<1>1. DOMAIN s = 1 .. Len(s) /\ Len(s) \in Nat /\ \A i \in 1 .. Len(s) : s[i] \in PathEntry
  OBVIOUS
<1>2. ASSUME x \in Nat PROVE p \in Seq(PathEntry)
  <2>1. DOMAIN p = 1 .. Len(s)
    BY <1>1
  <2>2. ASSUME NEW i \in 1 .. Len(s) PROVE p[i] \in PathEntry
    <3>1. CASE i # e
      BY <1>1, <3>1
    <3>2. CASE i = e
      <4>1. p[i] = [s[i] EXCEPT !.paths = Append(s[i].paths, x)]
        BY <1>1, <3>2
      <4>2. s[i] \in PathEntry /\ Append(s[i].paths, x) \in Seq(Nat)
        BY <1>1, <1>2 DEF PathEntry
      <4> HIDE DEF p
      <4> QED BY <4>1, <4>2 DEF PathEntry
    <3> QED BY <3>1, <3>2
  <2>3. p = [i \in 1 .. Len(s) |-> p[i]]
    BY <2>1
  <2> HIDE DEF p
  <2> QED BY <1>1, <2>1, <2>2, <2>3, IsASeq
<1>3. ASSUME x \in ArgKinds PROVE a \in Seq(PathEntry)
  <2>1. DOMAIN a = 1 .. Len(s)
    BY <1>1
  <2>2. ASSUME NEW i \in 1 .. Len(s) PROVE a[i] \in PathEntry
    <3>1. CASE i # e
      BY <1>1, <3>1
    <3>2. CASE i = e
      <4>1. a[i] = [s[i] EXCEPT !.args = Append(s[i].args, x)]
        BY <1>1, <3>2
      <4>2. s[i] \in PathEntry /\ Append(s[i].args, x) \in Seq(ArgKinds)
        BY <1>1, <1>3 DEF PathEntry
      <4> HIDE DEF a
      <4> QED BY <4>1, <4>2 DEF PathEntry
    <3> QED BY <3>1, <3>2
  <2>3. a = [i \in 1 .. Len(s) |-> a[i]]
    BY <2>1
  <2> HIDE DEF a
  <2> QED BY <1>1, <2>1, <2>2, <2>3, IsASeq
<1> QED BY <1>2, <1>3, Zenon

LEMMA EarlyHolds ==
  ASSUME Known, MbrHolds,
         Init0 \/ CheckFsck \/ OpenConfig \/ EndConfig \/ DispatchArg \/ ReadPad
  PROVE  MbrHolds'
<1> USE DEF MbrPcs, EarlyPcs, PathPcs, HomePcs, LeftByXOSD, MenuPcs, LauncherPcs, LoaderPcs
<1>1. CASE Init0
  <2>1. pc = "init" /\ pc' \in {"args", "osdsys"} /\ mounted' = "none" /\ UNCHANGED mbrVars
    BY <1>1 DEF Init0, InitModules
  <2> QED BY <2>1, NotHanding DEF MbrHolds, MbrMounts, MbrPaths, OsdHonest, mbrVars
<1>2. CASE CheckFsck
  <2>1. pc = "args" /\ pc' \in {"config", "fsck", "osdsys"} /\ mounted' = mounted /\ UNCHANGED mbrVars
    BY <1>2 DEF CheckFsck
  <2> QED BY <2>1, NotHanding DEF MbrHolds, MbrMounts, MbrPaths, OsdHonest, mbrVars
<1>3. CASE OpenConfig
  <2>1. pc = "config" /\ (pc' = "lines" \/ (pc' = "dispatch" /\ mounted' = mounted))
        /\ UNCHANGED <<cnfVars, runVars>>
    BY <1>3 DEF OpenConfig
  <2> QED BY <2>1, NotHanding DEF MbrHolds, MbrMounts, MbrPaths, OsdHonest, cnfVars, runVars
<1>4. CASE EndConfig
  <2>1. pc = "lines" /\ pc' = "dispatch" /\ mounted' = "none" /\ UNCHANGED mbrVars
    BY <1>4 DEF EndConfig, Released
  <2> QED BY <2>1, NotHanding DEF MbrHolds, MbrMounts, MbrPaths, OsdHonest, mbrVars
<1>5. CASE DispatchArg
  <2>1. pc = "dispatch" /\ pc' \in {"disc", "dvd", "patinfo", "dnas", "execosd"} /\ mounted' = mounted
        /\ after' = "args" /\ UNCHANGED <<cnfVars, at>>
    BY <1>5 DEF DispatchArg, Asked
  <2> QED BY <2>1, NotHanding DEF MbrHolds, MbrMounts, MbrPaths, OsdHonest, cnfVars
<1>6. CASE ReadPad
  <2>1. pc = "dispatch" /\ pc' = "entry" /\ mounted' = mounted
        /\ after' = "paths" /\ trigger' # "none" /\ UNCHANGED <<cnfVars, at>>
    BY <1>6, MbrAssumption DEF ReadPad
  <2> QED BY <2>1, NotHanding DEF MbrHolds, MbrMounts, MbrPaths, OsdHonest, cnfVars
<1> QED BY <1>1, <1>2, <1>3, <1>4, <1>5, <1>6

LEMMA LinesHold ==
  ASSUME Known, MbrHolds, ReadPathLine \/ ReadArgLine \/ ReadFlagLine
  PROVE  MbrHolds'
<1>1. pc = "lines" /\ pc' = pc /\ lines' = lines + 1 /\ UNCHANGED <<trigger, at, tried, after>>
  BY DEF ReadPathLine, ReadArgLine, ReadFlagLine, consoleVars, runVars
<1>2. lines' \in Nat
  BY <1>1 DEF MbrHolds, MbrPaths
<1>3. \A t \in Triggers : WithEntry(t) \in Seq(PathEntry)
  <2> TAKE t \in Triggers
  <2>1. [trigger |-> t, paths |-> <<>>, args |-> <<>>] \in PathEntry
    BY DEF PathEntry
  <2>2. paths \in Seq(PathEntry)
    BY DEF MbrHolds, MbrPaths
  <2> HIDE DEF PathEntry
  <2> QED BY <2>1, <2>2 DEF WithEntry
<1>4. paths' \in Seq(PathEntry)
  <2>1. CASE ReadPathLine
    <3>1. PICK t \in Triggers : paths' = [WithEntry(t) EXCEPT ![EntryFor(t)].paths = Append(@, lines')]
      BY <2>1, Zenon DEF ReadPathLine
    <3> QED BY <1>2, <1>3, <3>1, EntryTyped, Zenon
  <2>2. CASE ReadArgLine
    <3>1. PICK t \in Triggers, a \in ArgKinds :
            paths' = [WithEntry(t) EXCEPT ![EntryFor(t)].args = Append(@, a)]
      BY <2>2, Zenon DEF ReadArgLine
    <3> QED BY <1>3, <3>1, EntryTyped, Zenon
  <2>3. CASE ReadFlagLine
    BY <2>3 DEF ReadFlagLine, MbrHolds, MbrPaths
  <2> QED BY <2>1, <2>2, <2>3
<1> QED BY <1>1, <1>2, <1>4, NotHanding
        DEF MbrHolds, MbrMounts, MbrPaths, OsdHonest, MbrPcs, EarlyPcs, PathPcs, HomePcs, MenuPcs,
            LauncherPcs, LoaderPcs

LEMMA LoopHolds ==
  ASSUME Known, MbrHolds, NextEntry \/ NextPath \/ HandleConfigPath
  PROVE  MbrHolds'
<1> USE DEF MbrPcs, EarlyPcs, PathPcs, HomePcs, LeftByXOSD, MenuPcs, LauncherPcs, LoaderPcs
<1>1. CASE NextEntry
  <2>1. /\ pc = "entry" /\ mounted' = mounted /\ psx' = psx /\ UNCHANGED <<cnfVars, trigger, after>>
        /\ \/ pc' = "execosd" /\ at' = at
           \/ /\ pc' = "handle"
              /\ \E i \in DOMAIN paths, kind \in KnownKinds : at' = [e |-> i, n |-> 1, kind |-> kind, file |-> kind]
    BY <1>1, MbrAssumption DEF NextEntry, setVars
  <2> QED BY <2>1, NotHanding DEF KnownKinds, MbrHolds, MbrMounts, MbrPaths, OsdHonest, cnfVars
<1>2. CASE NextPath
  <2>1. /\ pc = "next" /\ mounted' = mounted /\ psx' = psx /\ UNCHANGED <<cnfVars, trigger, after>>
        /\ \/ pc' = "entry" /\ at' = at
           \/ pc' = "handle" /\ \E n : at' = [at EXCEPT !.n = n]
    BY <1>2 DEF NextPath, setVars
  <2> QED BY <2>1, NotHanding DEF MbrHolds, MbrMounts, MbrPaths, OsdHonest, cnfVars
<1>3. CASE HandleConfigPath
  <2>1. /\ pc = "handle" /\ mounted' = mounted /\ psx' = psx /\ UNCHANGED <<cnfVars, runVars>>
        /\ pc' \in {"disc", "dvd", "patinfo", "mounthosd", "mountxosd", "osdmenu", "bbn", "file"}
        /\ pc' = "mountxosd" => psx
    BY <1>3 DEF HandleConfigPath
  <2> QED BY <2>1, NotHanding DEF MbrHolds, MbrMounts, MbrPaths, OsdHonest, cnfVars, runVars
<1> QED BY <1>1, <1>2, <1>3

LEMMA LoadHolds ==
  ASSUME MbrHolds, NEW o, LoadELF(o), Owed(o), UNCHANGED <<lines, paths, trigger, after>>,
         DOMAIN at' = DOMAIN at, at'.file # "hosdmenu"
  PROVE  MbrHolds'
<1>1. pc' = "loader" /\ Handing'
  BY LoadHands DEF LoadELF
<1> QED BY <1>1 DEF MbrHolds, MbrMounts, MbrPaths, OsdHonest, MbrPcs, EarlyPcs, PathPcs, HomePcs,
                    MenuPcs, LauncherPcs

LEMMA ExecuteOwes ==
  ASSUME NEW o, NEW ps, ExecuteELF(o, ps), ps => psx', OptionsOK(o),
         o.file = "hosdmenu" => o.args = <<>>,
         o.checked /\ o.file \in Files /\ ~o.elf =>
           /\ exists'[o.file] = "yes" /\ (ps \/ DeviceOf(o.file) \in drivers)
           /\ OnPfs(o.file) => exists'[Home[o.file]] = "yes" /\ (ps \/ mounted = "none")
  PROVE  LoadELF(o) /\ Owed(o)
<1>1. LoadELF(o)
  BY DEF ExecuteELF
<1>2. CASE ps
  <2>1. mounted' = "none"
    BY <1>2 DEF ExecuteELF, InitModules
  <2> QED BY <1>1, <1>2, <2>1 DEF Owed
<1>3. CASE ~ps
  <2>1. mounted' = mounted /\ drivers' = drivers
    BY <1>3 DEF ExecuteELF
  <2> QED BY <1>1, <1>3, <2>1 DEF Owed
<1> QED BY <1>2, <1>3

LEMMA FailHolds ==
  ASSUME MbrHolds, Fails, UNCHANGED <<psx, lines, paths, trigger, after>>,
         DOMAIN at' = DOMAIN at, at'.e = at.e, at'.file # "hosdmenu",
         pc \in (PathPcs \ {"entry"}) \cup {"patinfo"},
         mounted' = "none" \/ (mounted' = mounted /\ (mounted = "none" \/ LeftByXOSD))
  PROVE  MbrHolds'
<1>1. pc' \in {"execosd", "next"} /\ (pc' = "next" => after = "paths")
  BY DEF Fails, MbrHolds, MbrPaths
<1>2. Handing'
  BY <1>1, NotHanding DEF LoaderPcs
<1>3. MbrMounts'
  BY <1>1 DEF MbrMounts, MbrPcs, EarlyPcs, HomePcs, LeftByXOSD
<1>4. MbrPaths'
  BY <1>1 DEF MbrHolds, MbrPaths, PathPcs, MenuPcs, LauncherPcs
<1> QED BY <1>1, <1>2, <1>3, <1>4 DEF MbrHolds, OsdHonest

LEMMA Greatest ==
  ASSUME NEW n \in Nat, NEW I \in SUBSET (1 .. n), I # {}
  PROVE  Max(I) \in I
<1> DEFINE J == {n - i : i \in I}
<1>1. J \in SUBSET Nat /\ J # {}
  <2>1. \A i \in I : n - i \in Nat
    OBVIOUS
  <2>2. PICK i \in I : TRUE
    OBVIOUS
  <2>3. n - i \in J
    OBVIOUS
  <2> QED BY <2>1, <2>3, Zenon
<1>2. PICK j \in J : \A k \in J : j <= k
  BY <1>1, Smallest, Zenon
<1>3. PICK i \in I : j = n - i
  BY <1>2
<1>4. \A k \in I : n - i <= n - k
  BY <1>2, <1>3
<1>5. \A k \in I : i >= k
  BY <1>4
<1> QED BY <1>5 DEF Max

LEMMA FlagsTyped ==
  ASSUME NEW args \in Seq(ArgKinds)
  PROVE  LET r == GlobalFlags(args) IN
           /\ r.args \in Seq(ArgKinds) /\ r.gsm \in BOOLEAN /\ r.dev9 \in {"All", "HDD"}
<1> DEFINE I   == {i \in 1 .. Len(args) : args[i] \notin {"-gsm", "-dev9", "-psxmode"}}
           own == IF I # {} THEN Max(I) ELSE 0
           on(a) == \E i \in DOMAIN args : i > own /\ args[i] = a
<1>1. own \in 0 .. Len(args)
  <2>1. I \in SUBSET (1 .. Len(args)) /\ Len(args) \in Nat
    OBVIOUS
  <2>2. CASE I # {}
    <3>1. \A n \in Nat : \A K \in SUBSET (1 .. n) : K # {} => Max(K) \in K
      BY Greatest
    <3> HIDE DEF I
    <3>2. Max(I) \in I
      BY <2>1, <2>2, <3>1
    <3>3. own = Max(I)
      BY <2>2 DEF own
    <3>4. Max(I) \in 1 .. Len(args)
      BY <2>1, <3>2, Zenon
    <3> HIDE DEF own
    <3> QED BY <3>3, <3>4
  <2> QED BY <2>1, <2>2
<1>2. SelectLastInSeq(args, LAMBDA a : a \notin {"-gsm", "-dev9", "-psxmode"}) = own
  BY Zenon DEF SelectLastInSeq
<1>3. GlobalFlags(args) =
        [args |-> SubSeq(args, 1, own), gsm |-> on("-gsm"),
         dev9 |-> IF on("-dev9") THEN "HDD" ELSE "All", psxmode |-> on("-psxmode")]
  BY <1>2, Zenon DEF GlobalFlags
<1> HIDE DEF own, I
<1>4. SubSeq(args, 1, own) \in Seq(ArgKinds)
  BY <1>1
<1>5. on("-gsm") \in BOOLEAN
  OBVIOUS
<1> HIDE DEF on
<1> QED BY <1>3, <1>4, <1>5

LEMMA FirstOf ==
  ASSUME NEW n \in Nat, NEW I \in SUBSET (1 .. n), NEW g, g = IF I # {} THEN Min(I) ELSE 0
  PROVE  /\ g \in 0 .. n /\ (g > 0 => g \in I) /\ (g = 0 => I = {})
<1>1. CASE I # {}
  <2>1. I \in SUBSET Nat
    OBVIOUS
  <2>2. PICK i \in I : \A j \in I : i <= j
    BY <1>1, <2>1, Smallest, Zenon
  <2>3. Min(I) \in I
    BY <2>2 DEF Min
  <2>4. g = Min(I) /\ g \in 1 .. n
    BY <1>1, <2>3, Zenon
  <2> QED BY <1>1, <2>3, <2>4
<1> QED BY <1>1

\* A step that leaves the loop of the entries alone.
LoopSame == UNCHANGED <<lines, paths, trigger, after>> /\ at' = at

LEMMA SameLoop ==
  ASSUME MbrHolds, UNCHANGED mbrVars
  PROVE  LoopSame /\ psx' = psx /\ at'.file # "hosdmenu"
BY DEF mbrVars, LoopSame, MbrHolds, MbrPaths

LEMMA RunFsckHolds == ASSUME Known, MbrHolds, RunFsck PROVE MbrHolds'
<1>1. PICK found \in [{"system", "fsck"} -> BOOLEAN] :
        /\ Look(found)
        /\ \/ CanMount("system", found) /\ Opens("fsck", found, "system")
              /\ LoadELF(Options("fsck", TRUE))
           \/ pc' = "osdsys"
  BY DEF RunFsck
<1>2. LoopSame /\ psx' = psx /\ at'.file # "hosdmenu" /\ mounted' = "none" /\ drivers' = drivers /\ pc = "fsck"
  BY SameLoop DEF RunFsck
<1>3. CASE pc' = "osdsys"
  BY <1>2, <1>3, NotHanding
     DEF MbrHolds, MbrMounts, MbrPaths, OsdHonest, MbrPcs, EarlyPcs, PathPcs, HomePcs,
         MenuPcs, LauncherPcs, LoaderPcs, LoopSame
<1>4. CASE /\ CanMount("system", found) /\ Opens("fsck", found, "system")
           /\ LoadELF(Options("fsck", TRUE))
  <2>1. /\ "fsck" \in DOMAIN found /\ "system" \in DOMAIN found
        /\ found["fsck"] /\ found["system"]
    BY <1>1, <1>4 DEF CanMount, Opens
  <2>2. "fsck" \in Files \cup Partitions /\ "system" \in Files \cup Partitions
    BY Homes
  <2>3. exists'["fsck"] = "yes" /\ exists'["system"] = "yes"
    BY <1>1, <2>1, <2>2, SeenYes, Zenon
  <2> DEFINE o == Options("fsck", TRUE)
  <2>4. OptionsOK(o) /\ o.file = "fsck"
    BY PlainOptions
  <2>5. LoadELF(o)
    BY <1>4
  <2> HIDE DEF o
  <2>6. Home["fsck"] = "system" /\ DeviceOf("fsck") \in drivers
    BY <1>4, Homes DEF Opens
  <2>7. Owed(o)
    BY <1>2, <2>3, <2>4, <2>6 DEF Owed
  <2> QED BY <1>2, <2>5, <2>7, LoadHolds DEF LoopSame
<1> QED BY <1>1, <1>3, <1>4

LEMMA MountHolds == ASSUME Known, MbrHolds, MountSystem PROVE MbrHolds'
<1>1. LoopSame /\ psx' = psx /\ at'.file # "hosdmenu" /\ pc \in {"mounthosd", "mountxosd"}
  BY SameLoop DEF MountSystem
<1>2. PICK there \in BOOLEAN :
        /\ Look(Only("system", there))
        /\ IF CanMount("system", Only("system", there))
             THEN mounted' = "system" /\ pc' = IF pc = "mounthosd" THEN "hosdsys" ELSE "xosd"
             ELSE Fails /\ UNCHANGED mounted
  BY DEF MountSystem
<1>3. CASE CanMount("system", Only("system", there))
  <2>1. exists'["system"] = "yes"
    <3>1. "system" \in DOMAIN Only("system", there) /\ Only("system", there)["system"]
      BY <1>3 DEF CanMount, Only
    <3>2. "system" \in Files \cup Partitions
      BY Homes
    <3> QED BY <1>2, <3>1, <3>2, SeenYes
  <2> QED BY <1>1, <1>2, <1>3, <2>1, NotHanding
          DEF MbrHolds, MbrMounts, MbrPaths, OsdHonest, MbrPcs, EarlyPcs, PathPcs, HomePcs,
              MenuPcs, LauncherPcs, LoaderPcs, LoopSame
<1>4. CASE Fails /\ UNCHANGED mounted
  <2>1. mounted = "none" \/ LeftByXOSD
    BY <1>1 DEF MbrHolds, MbrMounts, MbrPcs, EarlyPcs, HomePcs
  <2> QED BY <1>1, <1>4, <2>1, FailHolds DEF LoopSame, PathPcs
<1> QED BY <1>2, <1>3, <1>4

LEMMA HOSDSYSHolds == ASSUME Known, MbrHolds, StartHOSDSYS PROVE MbrHolds'
<1>1. LoopSame /\ psx' = psx /\ at'.file # "hosdmenu" /\ pc \in {"hosdsys", "osdhosdsys"}
  BY SameLoop DEF StartHOSDSYS
<1>2. mounted = "system" /\ exists["system"] = "yes"
  BY <1>1 DEF MbrHolds, MbrMounts, HomePcs
<1> DEFINE o(found) == IF Opens("hosdmenu", found, "system")
                         THEN [Options("hosdmenu", TRUE) EXCEPT !.dev9 = "None"]
                         ELSE Options("hosdsys", TRUE)
<1>3. PICK found \in [{"system", "hosdsys", "hosdmenu"} -> BOOLEAN] :
        /\ Look(found)
        /\ IF ~Opens("hosdsys", found, mounted)
             THEN /\ mounted' = "none"
                  /\ IF pc = "osdhosdsys" THEN pc' = "osdsys" ELSE Fails
                  /\ UNCHANGED <<drivers, loaderVars>>
             ELSE IF psx THEN ExecuteELF(o(found), TRUE)
                  ELSE /\ LoadELF([o(found) EXCEPT !.args = If(o(found).file = "hosdmenu", <<"-mbrboot">>)])
                       /\ mounted' = "none" /\ UNCHANGED drivers
  BY Zenon DEF StartHOSDSYS
<1>4. exists'["system"] = "yes"
  BY <1>2, <1>3, Seen, Homes DEF Answer
<1>5. CASE ~Opens("hosdsys", found, mounted)
  <2>1. CASE pc = "osdhosdsys"
    <3>1. exists'["hosdsys"] = "no" \/ "apa" \notin drivers'
      BY <1>2, <1>3, <1>5, Seen, Homes DEF Opens, Answer
    <3> QED BY <1>1, <1>3, <1>5, <2>1, <3>1, NotHanding
            DEF MbrHolds, MbrMounts, MbrPaths, OsdHonest, MbrPcs, EarlyPcs, PathPcs, HomePcs,
                MenuPcs, LauncherPcs, LoaderPcs, LoopSame
  <2>2. CASE pc = "hosdsys"
    BY <1>1, <1>3, <1>5, <2>2, FailHolds DEF LoopSame, PathPcs
  <2> QED BY <1>1, <2>1, <2>2
<1>6. CASE Opens("hosdsys", found, mounted)
  <2> DEFINE p == o(found)
  <2>1. /\ OptionsOK(p) /\ p.args = <<>> /\ p.file \in {"hosdmenu", "hosdsys"}
        /\ exists'[p.file] = "yes" /\ "apa" \in drivers
    <3>1. CASE Opens("hosdmenu", found, "system")
      <4>1. OptionsOK(p) /\ p.args = <<>> /\ p.file = "hosdmenu"
        BY <3>1 DEF Options, OptionsOK
      <4> HIDE DEF p
      <4> QED BY <1>3, <3>1, <4>1, Seen, Homes DEF Opens, Answer
    <3>2. CASE ~Opens("hosdmenu", found, "system")
      <4>1. OptionsOK(p) /\ p.args = <<>> /\ p.file = "hosdsys"
        BY <3>2 DEF Options, OptionsOK
      <4> HIDE DEF p
      <4> QED BY <1>3, <1>6, <4>1, Seen, Homes DEF Opens, Answer
    <3> QED BY <3>1, <3>2
  <2>2. CASE psx
    <3>1. ExecuteELF(p, TRUE)
      BY <1>3, <1>6, <2>2
    <3> HIDE DEF p
    <3>2. LoadELF(p) /\ Owed(p)
      <4>1. DeviceOf(p.file) = "apa" /\ Home[p.file] = "system"
        BY <2>1, Homes
      <4> QED BY <1>1, <1>4, <2>1, <2>2, <3>1, <4>1, ExecuteOwes
    <3> QED BY <1>1, <3>2, LoadHolds DEF LoopSame
  <2>3. CASE ~psx
    <3> DEFINE q == [p EXCEPT !.args = If(p.file = "hosdmenu", <<"-mbrboot">>)]
    <3>1. LoadELF(q) /\ mounted' = "none" /\ drivers' = drivers
      BY <1>3, <1>6, <2>3
    <3> HIDE DEF p
    <3>2. /\ OptionsOK(q) /\ q.file = p.file
          /\ q.file = "hosdmenu" => q.args = <<"-mbrboot">>
      <4>1. q.args \in Seq(Words) /\ (p.file = "hosdmenu" => q.args = <<"-mbrboot">>)
        <5>1. CASE p.file = "hosdmenu"
          BY <2>1, <5>1 DEF OptionsOK, If, Words
        <5>2. CASE p.file = "hosdsys"
          BY <2>1, <5>2 DEF OptionsOK, If, Words
        <5> QED BY <2>1, <5>1, <5>2
      <4> QED BY <2>1, <4>1 DEF OptionsOK
    <3> HIDE DEF q
    <3>3. Owed(q)
      BY <1>1, <1>4, <2>1, <3>1, <3>2, Homes DEF Owed
    <3> QED BY <1>1, <3>1, <3>3, LoadHolds DEF LoopSame
  <2> QED BY <2>2, <2>3
<1> QED BY <1>5, <1>6

LEMMA XOSDHolds == ASSUME Known, MbrHolds, StartXOSD PROVE MbrHolds'
<1>1. LoopSame /\ psx' = psx /\ at'.file # "hosdmenu" /\ pc \in {"xosd", "osdxosd"}
  BY SameLoop DEF StartXOSD
<1>2. mounted = "system" /\ exists["system"] = "yes" /\ (pc = "xosd" => psx /\ after = "paths")
  BY <1>1 DEF MbrHolds, MbrMounts, MbrPaths, HomePcs, PathPcs
<1> DEFINE o == [Options("kelf", TRUE) EXCEPT !.elf = TRUE]
<1>3. /\ \E there : Look(Only("xosd", there))
      /\ \/ LoadELF(o)
         \/ /\ IF pc = "osdxosd" THEN pc' = "osdhosdsys" ELSE Fails
            /\ mounted' = mounted
  BY DEF StartXOSD
<1>4. exists'["system"] = "yes"
  BY <1>2, <1>3, KeptLook, Homes DEF Kept, Known
<1>5. CASE LoadELF(o)
  <2>1. OptionsOK(o) /\ o.file = "kelf"
    BY DEF Options, OptionsOK
  <2> HIDE DEF o
  <2>2. Owed(o)
    BY <2>1, Homes, OwedFree
  <2> QED BY <1>1, <1>5, <2>2, LoadHolds DEF LoopSame
<1>6. CASE pc = "osdxosd" /\ pc' = "osdhosdsys" /\ mounted' = mounted
  BY <1>1, <1>2, <1>4, <1>6, NotHanding
     DEF MbrHolds, MbrMounts, MbrPaths, OsdHonest, MbrPcs, EarlyPcs, PathPcs, HomePcs,
         MenuPcs, LauncherPcs, LoaderPcs, LoopSame
<1>7. CASE pc = "xosd" /\ Fails /\ mounted' = mounted
  <2>1. LeftByXOSD
    BY <1>2, <1>7 DEF MbrHolds, MbrPaths, LeftByXOSD
  <2> QED BY <1>1, <1>7, <2>1, FailHolds DEF LoopSame, PathPcs
<1> QED BY <1>1, <1>3, <1>5, <1>6, <1>7

LEMMA OSDMenuHolds == ASSUME Known, MbrHolds, StartOSDMenu PROVE MbrHolds'
<1>1. LoopSame /\ psx' = psx /\ at'.file # "hosdmenu" /\ LoadELF(Options("osdmenu", FALSE))
  BY SameLoop DEF StartOSDMenu
<1> DEFINE o == Options("osdmenu", FALSE)
<1>2. OptionsOK(o) /\ o.file = "osdmenu" /\ ~o.checked
  BY PlainOptions, Zenon DEF Options
<1>3. LoadELF(o)
  BY <1>1
<1> HIDE DEF o
<1>4. Owed(o)
  BY <1>2, OwedFree
<1> QED BY <1>1, <1>3, <1>4, LoadHolds DEF LoopSame

LEMMA Checked ==
  ASSUME NEW file, NEW found, CheckPath(file, found)
  PROVE  /\ file \in Files /\ found[file] /\ DeviceOf(file) \in drivers
         /\ OnPfs(file) => found[Home[file]] /\ mounted = "none"
BY DEF CheckPath, CanMount, Opens, DeviceOf

\* The arguments given with a path.
LEMMA PassedTyped ==
  ASSUME MbrHolds, pc \in (PathPcs \ {"entry"}) \cup {"patinfo"} PROVE Passed \in Seq(ArgKinds)
<1>1. Given \in Seq(ArgKinds)
  <2>1. CASE after = "paths"
    <3>1. at.e \in DOMAIN paths /\ paths \in Seq(PathEntry)
      BY <2>1 DEF MbrHolds, MbrPaths
    <3>2. paths[at.e] \in PathEntry
      <4> HIDE DEF PathEntry
      <4> QED BY <3>1
    <3> QED BY <2>1, <3>2 DEF Given, PathEntry
  <2>2. CASE after # "paths"
    BY <2>2 DEF Given
  <2> QED BY <2>1, <2>2
<1> QED BY <1>1 DEF Passed, NoFlags, Front

\* What a partition says.
LEMMA CnfTyped ==
  ASSUME NEW p \in PartitionCnf
  PROVE  /\ p.boot \in {"embedded", "pfs", "mc?", "ata", "xfrom", "cdrom"}
         /\ p.ioprp \in BOOLEAN /\ p.skip \in BOOLEAN /\ p.dev9 \in {"All", "HDD", "None"}
         /\ p.args \in Seq(Words)
<1>1. /\ p.boot \in {"embedded", "pfs", "mc?", "ata", "xfrom", "cdrom"}
      /\ p.ioprp \in BOOLEAN /\ p.skip \in BOOLEAN /\ p.dev9 \in {"All", "HDD", "None"}
      /\ p.args \in {<<>>, <<"-psxmode">>, <<"arg">>, <<"arg", "-psxmode">>}
  BY Zenon DEF PartitionCnf
<1>2. <<>> \in Seq(Words)
  OBVIOUS
<1>3. <<"-psxmode">> \in Seq(Words)
  BY DEF Words
<1>4. <<"arg">> \in Seq(Words)
  BY DEF Words
<1>5. <<"arg", "-psxmode">> \in Seq(Words)
  BY DEF Words
<1> QED BY <1>1, <1>2, <1>3, <1>4, <1>5

LEMMA ConfigPathHolds ==
  ASSUME MbrHolds, pc \in {"bbn", "file"}, NEW file \in Files, file # "hosdmenu",
         StartConfigPath(file), exists'[file] = "yes", DeviceOf(file) \in drivers,
         OnPfs(file) => exists'[Home[file]] = "yes" /\ mounted = "none",
         UNCHANGED <<lines, paths, trigger, after>>, DOMAIN at' = DOMAIN at, at'.file # "hosdmenu"
  PROVE  MbrHolds'
<1> DEFINE r  == GlobalFlags(Passed)
           o  == [Options(file, TRUE) EXCEPT !.args = r.args, !.gsm = r.gsm, !.dev9 = r.dev9]
<1>1. ExecuteELF(o, psx')
  BY Zenon DEF StartConfigPath
<1>3. Passed \in Seq(ArgKinds)
  BY PassedTyped DEF PathPcs
<1>4. r.args \in Seq(ArgKinds) /\ r.gsm \in BOOLEAN /\ r.dev9 \in {"All", "HDD"}
  BY <1>3, FlagsTyped
<1> HIDE DEF r
<1>5. OptionsOK(o) /\ o.file = file /\ o.checked = TRUE
  <2>1. r.args \in Seq(Words)
    BY <1>4 DEF Words
  <2> QED BY <1>4, <2>1 DEF Options, OptionsOK
<1> HIDE DEF o
<1>6. LoadELF(o) /\ Owed(o)
  BY <1>1, <1>5, ExecuteOwes
<1> QED BY <1>6, LoadHolds

LEMMA PSBBNHolds == ASSUME Known, MbrHolds, StartPSBBN PROVE MbrHolds'
<1>1. /\ LoopSame /\ at'.file # "hosdmenu" /\ pc = "bbn"
      /\ mounted = "none" \/ LeftByXOSD
  BY DEF StartPSBBN, MbrHolds, MbrMounts, MbrPaths, MbrPcs, EarlyPcs, HomePcs, LoopSame, cnfVars, runVars
<1>2. PICK found \in [{"system", "osdboot"} -> BOOLEAN] :
        /\ Look(found)
        /\ IF CanMount("system", found) /\ found["osdboot"]
             THEN StartConfigPath("osdboot")
             ELSE /\ Fails
                  /\ mounted' = IF CanMount("system", found) THEN Released("system") ELSE mounted
                  /\ UNCHANGED <<drivers, loaderVars, psx>>
  BY Zenon DEF StartPSBBN
<1>3. CASE CanMount("system", found) /\ found["osdboot"]
  <2>1. mounted = "none" /\ "apa" \in drivers /\ found["system"]
    BY <1>3 DEF CanMount
  <2>2. exists'["osdboot"] = "yes" /\ exists'["system"] = "yes"
    BY <1>2, <1>3, <2>1, SeenYes, Homes
  <2>3. Home["osdboot"] = "system" /\ DeviceOf("osdboot") = "apa" /\ "osdboot" \in Files
    BY Homes
  <2> QED BY <1>1, <1>2, <1>3, <2>1, <2>2, <2>3, ConfigPathHolds DEF LoopSame
<1>4. CASE Fails /\ UNCHANGED psx
           /\ mounted' = IF CanMount("system", found) THEN Released("system") ELSE mounted
  BY <1>1, <1>4, FailHolds DEF LoopSame, Released, PathPcs
<1> QED BY <1>2, <1>3, <1>4

\* The first path of a list that is there.
LEMMA FirstChecked ==
  ASSUME NEW s, Len(s) \in Nat, NEW found, NEW good,
         good = SelectInSeq(s, LAMBDA f : CheckPath(f, found))
  PROVE  good \in 0 .. Len(s) /\ (good > 0 => CheckPath(s[good], found))
<1> DEFINE I == {i \in 1 .. Len(s) : CheckPath(s[i], found)}
<1>1. good = IF I # {} THEN Min(I) ELSE 0
  BY Zenon DEF SelectInSeq
<1>2. I \in SUBSET (1 .. Len(s))
  OBVIOUS
<1>3. good \in 0 .. Len(s) /\ (good > 0 => good \in I)
  <2> HIDE DEF I
  <2> QED BY <1>1, <1>2, FirstOf
<1> QED BY <1>3

LEMMA Cards ==
  ASSUME NEW file
  PROVE  /\ Len(CardsOf(file)) \in Nat /\ DOMAIN CardsOf(file) = 1 .. Len(CardsOf(file))
         /\ file # "hosdmenu" => NamedAfter(file) # "hosdmenu" /\
              \A i \in DOMAIN CardsOf(file) : CardsOf(file)[i] # "hosdmenu"
<1>1. CASE file = "mc?"
  BY <1>1 DEF CardsOf, NamedAfter
<1>2. CASE file # "mc?"
  BY <1>2 DEF CardsOf, NamedAfter
<1> QED BY <1>1, <1>2

LEMMA FileHolds == ASSUME Known, MbrHolds, StartFile PROVE MbrHolds'
<1> DEFINE s == CardsOf(at.file)
           names == {s[i] : i \in DOMAIN s} \cap Files
           seen  == names \cup {Home[f] : f \in {g \in names : OnPfs(g)}}
           good(found) == SelectInSeq(s, LAMBDA f : CheckPath(f, found))
<1>1. /\ UNCHANGED <<lines, paths, trigger, after>> /\ pc = "file"
      /\ at.file # "hosdmenu" /\ (mounted = "none" \/ LeftByXOSD)
      /\ DOMAIN at = {"e", "n", "kind", "file"}
  BY DEF StartFile, MbrHolds, MbrMounts, MbrPaths, MbrPcs, EarlyPcs, HomePcs, cnfVars
<1>2. PICK found \in [{"mc0", "mc1", "pfs", "part", "ata", "xfrom"} -> BOOLEAN] :
        /\ Look([f \in seen |-> found[f]])
        /\ IF good(found) > 0
             THEN StartConfigPath(s[good(found)]) /\ UNCHANGED at
             ELSE /\ Fails
                  /\ at' = [at EXCEPT !.file = NamedAfter(@)]
                  /\ UNCHANGED <<mounted, drivers, loaderVars, psx>>
  BY Zenon DEF StartFile
<1>3. Len(s) \in Nat /\ DOMAIN s = 1 .. Len(s) /\ NamedAfter(at.file) # "hosdmenu"
      /\ \A i \in DOMAIN s : s[i] # "hosdmenu"
  BY <1>1, Cards
<1> DEFINE g == good(found)
<1>4. g \in 0 .. Len(s) /\ (g > 0 => CheckPath(s[g], found))
  <2> HIDE DEF s
  <2> QED BY <1>3, FirstChecked
<1>5. CASE g > 0
  <2> DEFINE file == s[g]
  <2>1. g \in DOMAIN s
    BY <1>3, <1>4, <1>5
  <2>2. /\ file \in Files /\ found[file] /\ DeviceOf(file) \in drivers
        /\ OnPfs(file) => found[Home[file]] /\ mounted = "none"
    <3>1. CheckPath(file, found)
      BY <1>4, <1>5
    <3> HIDE DEF file
    <3> QED BY <3>1, Checked
  <2>3. file \in names /\ file # "hosdmenu"
    BY <1>3, <2>1, <2>2
  <2>4. file \in seen /\ (OnPfs(file) => Home[file] \in seen)
    <3> HIDE DEF names, file
    <3> QED BY <2>3
  <2>5. StartConfigPath(file) /\ at' = at
    BY <1>2, <1>5
  <2> DEFINE look == [f \in seen |-> found[f]]
  <2>6. Look(look)
    BY <1>2
  <2>7. /\ file \in DOMAIN look /\ look[file] = found[file]
        /\ OnPfs(file) => Home[file] \in DOMAIN look /\ look[Home[file]] = found[Home[file]]
    <3> HIDE DEF seen, file
    <3> QED BY <2>4
  <2>8. OnPfs(file) => Home[file] \in Partitions
    BY DEF OnPfs
  <2> HIDE DEF look, file, seen, names, g, s
  <2>9. exists'[file] = "yes" /\ (OnPfs(file) => exists'[Home[file]] = "yes")
    BY <2>2, <2>6, <2>7, <2>8, SeenYes
  <2>10. psx' \in BOOLEAN /\ DOMAIN at' = DOMAIN at /\ at'.file # "hosdmenu"
    BY <1>1, <2>5 DEF StartConfigPath
  <2> QED BY <1>1, <2>2, <2>3, <2>5, <2>9, <2>10, ConfigPathHolds
<1>6. CASE ~(g > 0)
  <2>1. Fails /\ at' = [at EXCEPT !.file = NamedAfter(@)] /\ UNCHANGED <<mounted, drivers, loaderVars, psx>>
    BY <1>2, <1>6
  <2> HIDE DEF s, g
  <2>2. DOMAIN at' = DOMAIN at /\ at'.e = at.e /\ at'.file # "hosdmenu"
    BY <1>1, <1>3, <2>1
  <2> QED BY <1>1, <2>1, <2>2, FailHolds DEF PathPcs
<1> QED BY <1>5, <1>6

LEMMA HDDApplicationHolds == ASSUME Known, MbrHolds, HandleHDDApplication PROVE MbrHolds'
<1> DEFINE names(p) == IF p.boot \in {"mc?", "pfs", "ata"}
                         THEN {CardsOf(p.boot)[i] : i \in DOMAIN CardsOf(p.boot)} ELSE {}
           seen(p) == {"part"} \cup names(p)
           good(found, p) == SelectInSeq(CardsOf(p.boot), LAMBDA f : CheckPath(f, found))
           file(found, p) ==
             IF names(p) # {} THEN CardsOf(p.boot)[good(found, p)]
             ELSE IF p.boot = "embedded" THEN "part"
             ELSE IF p.boot = "cdrom" THEN "disc" ELSE p.boot
           args(p) == Passed \o p.args
           stays(p) == args(p) # <<>> /\ Last(args(p)) = "-psxmode"
           rest(p) == IF stays(p) THEN Front(args(p)) ELSE args(p)
           opt(found, p) == PatinfoOptions(p, file(found, p), names(p) # {}, rest(p))
<1>1. /\ UNCHANGED <<lines, paths, trigger, after>> /\ pc = "patinfo"
      /\ at.file # "hosdmenu" /\ (mounted = "none" \/ LeftByXOSD)
      /\ DOMAIN at = {"e", "n", "kind", "file"}
      /\ at' = IF after = "paths" THEN [at EXCEPT !.file = "part"] ELSE at
  BY DEF HandleHDDApplication, MbrHolds, MbrMounts, MbrPaths, MbrPcs, EarlyPcs, HomePcs, cnfVars
<1>2. PICK found \in [{"part", "pfs", "mc0", "mc1", "ata"} -> BOOLEAN], p \in Patinfos :
        /\ Look([f \in seen(p) |-> found[f]])
        /\ IF (found["part"] /\ "apa" \in drivers) /\ (names(p) # {} => good(found, p) > 0)
             THEN IF p.boot = "cdrom"
                    THEN /\ pc' = "ps2disc"
                         /\ UNCHANGED <<mounted, drivers, loaderVars>>
                    ELSE ExecuteELF(opt(found, p), psx')
             ELSE Fails /\ UNCHANGED <<mounted, drivers, loaderVars, psx>>
  BY Zenon DEF HandleHDDApplication
<1>3. DOMAIN at' = DOMAIN at /\ at'.e = at.e /\ at'.file # "hosdmenu"
  BY <1>1
<1>4. /\ p.boot \in {"embedded", "pfs", "mc?", "ata", "xfrom", "cdrom"}
      /\ p.ioprp \in BOOLEAN /\ p.skip \in BOOLEAN /\ p.dev9 \in {"All", "HDD", "None"}
      /\ rest(p) \in Seq(Words)
  <2>1. p \in PartitionCnf
    BY MbrAssumption
  <2>2. Passed \in Seq(Words)
    BY <1>1, PassedTyped DEF Words
  <2>3. p.args \in Seq(Words)
    BY <2>1, CnfTyped
  <2>4. args(p) \in Seq(Words)
    BY <2>2, <2>3
  <2>5. rest(p) \in Seq(Words)
    <3> HIDE DEF args
    <3> QED BY <2>4 DEF Front
  <2> HIDE DEF rest
  <2> QED BY <2>1, <2>5, CnfTyped
<1> HIDE DEF rest
<1>5. CASE Fails /\ UNCHANGED <<mounted, drivers, loaderVars, psx>>
  BY <1>1, <1>3, <1>5, FailHolds
<1>6. CASE pc' = "ps2disc" /\ UNCHANGED <<mounted, drivers, loaderVars>>
  BY <1>1, <1>3, <1>6, NotHanding
     DEF MbrHolds, MbrMounts, MbrPaths, OsdHonest, MbrPcs, EarlyPcs, PathPcs, HomePcs, LeftByXOSD,
         MenuPcs, LauncherPcs, LoaderPcs
<1>7. CASE /\ ExecuteELF(opt(found, p), psx') /\ found["part"] /\ "apa" \in drivers
           /\ names(p) # {} => good(found, p) > 0
  <2> DEFINE f == file(found, p)
             c == (names(p) # {})
             o == PatinfoOptions(p, f, c, rest(p))
  <2>1. ExecuteELF(o, psx')
    BY <1>7
  <2>2. CASE p.boot \in {"mc?", "pfs", "ata"}
    <3> DEFINE s == CardsOf(p.boot)
               g == SelectInSeq(s, LAMBDA h : CheckPath(h, found))
    <3>1. Len(s) \in Nat /\ DOMAIN s = 1 .. Len(s) /\ (\A i \in DOMAIN s : s[i] # "hosdmenu")
          /\ Len(s) > 0 /\ 1 \in DOMAIN s
      BY <2>2, Cards DEF CardsOf
    <3>2. names(p) = {s[i] : i \in DOMAIN s}
      BY <2>2
    <3>3. s[1] \in names(p)
      <4>1. s[1] \in {s[i] : i \in DOMAIN s}
        BY <3>1
      <4> HIDE DEF names, s
      <4> QED BY <3>2, <4>1
    <3>4. g > 0 /\ c
      BY <1>7, <3>3
    <3>5. g \in 0 .. Len(s) /\ (g > 0 => CheckPath(s[g], found))
      <4>1. Len(s) \in Nat
        BY <3>1
      <4> HIDE DEF s
      <4> QED BY <4>1, FirstChecked
    <3>6. g \in DOMAIN s
      BY <3>1, <3>4, <3>5
    <3>7. f = s[g] /\ f # "hosdmenu" /\ f \in seen(p)
      BY <3>1, <3>2, <3>3, <3>6
    <3>8. /\ f \in Files /\ found[f] /\ DeviceOf(f) \in drivers
          /\ OnPfs(f) => found[Home[f]] /\ mounted = "none"
      <4> HIDE DEF f, s, g
      <4> QED BY <3>4, <3>5, <3>7, Checked
    <3>9. OnPfs(f) => Home[f] = "part"
      <4>1. f \in {"mc0", "mc1", "pfs", "ata"}
        BY <2>2, <3>6, <3>7 DEF CardsOf
      <4> HIDE DEF f
      <4> QED BY <4>1, Homes
    <3> DEFINE look == [h \in seen(p) |-> found[h]]
    <3>10. /\ Look(look) /\ f \in DOMAIN look /\ look[f] = found[f]
           /\ "part" \in DOMAIN look /\ look["part"] = found["part"]
      <4>1. Look(look)
        BY <1>2
      <4>2. "part" \in seen(p)
        OBVIOUS
      <4> HIDE DEF f, seen
      <4> QED BY <4>1, <4>2, <3>7
    <3> HIDE DEF look, f, s, g, c, names, seen
    <3>11. exists'[f] = "yes" /\ (OnPfs(f) => exists'[Home[f]] = "yes")
      <4>1. exists'[f] = "yes"
        BY <3>8, <3>10, SeenYes
      <4>2. "part" \in Files \cup Partitions
        BY Homes
      <4>3. exists'["part"] = "yes"
        BY <1>7, <3>10, <4>2, SeenYes
      <4> QED BY <3>9, <4>1, <4>3
    <3>12. OptionsOK(o) /\ o.file = f
      BY <1>4, <3>4 DEF PatinfoOptions, Options, OptionsOK
    <3> HIDE DEF o
    <3>13. LoadELF(o) /\ Owed(o)
      BY <1>1, <2>1, <3>7, <3>8, <3>11, <3>12, ExecuteOwes
    <3> QED BY <1>1, <1>3, <3>13, LoadHolds
  <2>3. CASE p.boot \notin {"mc?", "pfs", "ata"}
    <3>1. names(p) = {}
      BY <2>3
    <3>2. f \in {"part", "disc", "xfrom"} /\ c = FALSE
      BY <1>4, <2>3, <3>1
    <3> HIDE DEF f, c, names
    <3>3. OptionsOK(o) /\ o.file = f /\ o.checked = FALSE
      BY <1>4, <3>2 DEF PatinfoOptions, Options, OptionsOK
    <3> HIDE DEF o
    <3>4. LoadELF(o) /\ Owed(o)
      BY <2>1, <3>2, <3>3, OwedFree DEF ExecuteELF
    <3> QED BY <1>1, <1>3, <3>4, LoadHolds
  <2> QED BY <2>2, <2>3
<1> QED BY <1>2, <1>5, <1>6, <1>7

LEMMA DNASHolds == ASSUME Known, MbrHolds, HandleDNAS PROVE MbrHolds'
<1>1. LoopSame /\ psx' = psx /\ at'.file # "hosdmenu" /\ ExecuteELF(Options("dnas", FALSE), psx)
  BY SameLoop DEF HandleDNAS
<1> DEFINE o == Options("dnas", FALSE)
<1>2. LoadELF(o) /\ OptionsOK(o) /\ o.file = "dnas" /\ ~o.checked
  <2>1. OptionsOK(o) /\ o.file = "dnas" /\ ~o.checked
    BY PlainOptions, Zenon DEF Options
  <2>2. ExecuteELF(o, psx)
    BY <1>1
  <2> HIDE DEF o
  <2> QED BY <2>1, <2>2 DEF ExecuteELF
<1> HIDE DEF o
<1>3. Owed(o)
  BY <1>2, OwedFree
<1> QED BY <1>1, <1>2, <1>3, LoadHolds DEF LoopSame

LEMMA DiscHolds ==
  ASSUME Known, MbrHolds, StartGameDisc \/ StartDVDVideo
  PROVE  MbrHolds'
<1>1. /\ LoopSame /\ psx' = psx /\ at'.file # "hosdmenu" /\ pc \in {"disc", "dvd"}
      /\ pc' \in {"execosd", "ps1disc", "ps2disc", "rom"}
      /\ mounted' = "none" \/ mounted' = mounted
  BY SameLoop DEF StartGameDisc, StartDVDVideo, InitModules
<1> QED BY <1>1, NotHanding
        DEF MbrHolds, MbrMounts, MbrPaths, OsdHonest, MbrPcs, EarlyPcs, PathPcs, HomePcs, LeftByXOSD,
            MenuPcs, LauncherPcs, LoaderPcs, LoopSame

LEMMA PS1DiscHolds == ASSUME Known, MbrHolds, HandlePS1Disc PROVE MbrHolds'
<1> DEFINE x == [Options("xdkwdrv", TRUE) EXCEPT !.skip = TRUE]
           d == [Options("dkwdrv", TRUE) EXCEPT !.skip = TRUE]
           v == [Options("ps1vn", TRUE) EXCEPT !.elf = TRUE]
<1>1. LoopSame /\ psx' = psx /\ at'.file # "hosdmenu" /\ mounted' = "none" /\ drivers' = drivers
  BY SameLoop DEF HandlePS1Disc
<1>2. PICK found \in [{"xdkwdrv", "system", "dkwdrv"} -> BOOLEAN] :
        \/ Look(found) /\ Opens("xdkwdrv", found, mounted) /\ LoadELF(x)
        \/ Look(found) /\ CanMount("system", found) /\ found["dkwdrv"] /\ LoadELF(d)
        \/ LoadELF(v)
        \/ pc' = "rom"
  BY Zenon DEF HandlePS1Disc
<1>3. /\ OptionsOK(x) /\ x.file = "xdkwdrv" /\ OptionsOK(d) /\ d.file = "dkwdrv"
      /\ OptionsOK(v) /\ v.file = "ps1vn"
  BY DEF Options, OptionsOK
<1> HIDE DEF x, d, v
<1>4. CASE Look(found) /\ Opens("xdkwdrv", found, mounted) /\ LoadELF(x)
  <2>1. found["xdkwdrv"] /\ DeviceOf("xdkwdrv") \in drivers
    BY <1>4 DEF Opens
  <2>2. exists'["xdkwdrv"] = "yes"
    BY <1>4, <2>1, SeenYes, Homes
  <2>3. Owed(x)
    BY <1>1, <1>3, <2>1, <2>2, Homes DEF Owed
  <2> QED BY <1>1, <1>4, <2>3, LoadHolds DEF LoopSame
<1>5. CASE Look(found) /\ CanMount("system", found) /\ found["dkwdrv"] /\ LoadELF(d)
  <2>1. found["system"] /\ "apa" \in drivers
    BY <1>5 DEF CanMount
  <2>2. exists'["dkwdrv"] = "yes" /\ exists'["system"] = "yes"
    BY <1>5, <2>1, SeenYes, Homes
  <2>3. Owed(d)
    BY <1>1, <1>3, <2>1, <2>2, Homes DEF Owed
  <2> QED BY <1>1, <1>5, <2>3, LoadHolds DEF LoopSame
<1>6. CASE LoadELF(v)
  <2>1. Owed(v)
    BY <1>3, OwedFree, Homes
  <2> QED BY <1>1, <1>6, <2>1, LoadHolds DEF LoopSame
<1>7. CASE pc' = "rom"
  BY <1>1, <1>7, NotHanding
     DEF MbrHolds, MbrMounts, MbrPaths, OsdHonest, MbrPcs, EarlyPcs, PathPcs, HomePcs, LeftByXOSD,
         MenuPcs, LauncherPcs, LoaderPcs, LoopSame
<1> QED BY <1>2, <1>4, <1>5, <1>6, <1>7

LEMMA PS2DiscHolds == ASSUME Known, MbrHolds, HandlePS2Disc PROVE MbrHolds'
<1>1. LoopSame /\ psx' = psx /\ at'.file # "hosdmenu"
  BY SameLoop DEF HandlePS2Disc
<1>2. PICK on \in BOOLEAN : LoadELF([Options("disc", TRUE) EXCEPT !.gsm = on])
  BY DEF HandlePS2Disc
<1> DEFINE o == [Options("disc", TRUE) EXCEPT !.gsm = on]
<1>3. OptionsOK(o) /\ o.file = "disc"
  BY DEF Options, OptionsOK
<1> HIDE DEF o
<1>4. LoadELF(o) /\ Owed(o)
  BY <1>2, <1>3, OwedFree, Homes DEF o
<1> QED BY <1>1, <1>4, LoadHolds DEF LoopSame

LEMMA ExecOSDHolds == ASSUME Known, MbrHolds, ExecOSD PROVE MbrHolds'
<1> DEFINE asks == "bbn" \in flags
           look(found) == IF asks THEN found ELSE Only("system", found["system"])
<1>1. LoopSame /\ psx' = psx /\ at'.file # "hosdmenu" /\ pc = "execosd"
  BY SameLoop DEF ExecOSD
<1>2. mounted = "none" \/ LeftByXOSD
  BY <1>1 DEF MbrHolds, MbrMounts, MbrPcs, EarlyPcs, HomePcs
<1>3. PICK found \in [{"system", "osdboot"} -> BOOLEAN] :
        /\ Look(look(found))
        /\ IF ~CanMount("system", found)
             THEN pc' = "osdsys" /\ UNCHANGED <<mounted, drivers, loaderVars>>
           ELSE IF asks /\ found["osdboot"]
             THEN ExecuteELF(Options("osdboot", TRUE), psx)
           ELSE /\ pc' = IF psx THEN "osdxosd" ELSE "osdhosdsys"
                /\ mounted' = "system"
                /\ UNCHANGED <<drivers, loaderVars>>
  BY Zenon DEF ExecOSD
<1>4. /\ exists'["system"] = Answer(found["system"])
      /\ asks => exists'["osdboot"] = Answer(found["osdboot"])
  <2>1. CASE asks
    <3>1. Look(found)
      BY <1>3, <2>1
    <3> QED BY <3>1, Seen, Homes
  <2>2. CASE ~asks
    <3>1. Look(Only("system", found["system"]))
      BY <1>3, <2>2
    <3>2. "system" \in DOMAIN Only("system", found["system"])
          /\ Only("system", found["system"])["system"] = found["system"]
      BY DEF Only
    <3> QED BY <2>2, <3>1, <3>2, Seen, Homes
  <2> QED BY <2>1, <2>2
<1> HIDE DEF asks, look
<1>5. CASE ~CanMount("system", found)
  <2>1. exists'["system"] = "no" \/ "apa" \notin drivers' \/ LeftByXOSD'
    BY <1>1, <1>2, <1>3, <1>4, <1>5 DEF CanMount, LeftByXOSD, Answer, LoopSame
  <2>2. mounted' = mounted /\ pc' = "osdsys"
    BY <1>3, <1>5
  <2> QED BY <1>1, <2>1, <2>2, NotHanding
          DEF MbrHolds, MbrMounts, MbrPaths, OsdHonest, MbrPcs, EarlyPcs, PathPcs, HomePcs, LeftByXOSD,
              MenuPcs, LauncherPcs, LoaderPcs, LoopSame
<1>6. CASE CanMount("system", found) /\ asks /\ found["osdboot"]
  <2>1. mounted = "none" /\ "apa" \in drivers /\ exists'["system"] = "yes" /\ exists'["osdboot"] = "yes"
    BY <1>4, <1>6 DEF CanMount, Answer
  <2> DEFINE o == Options("osdboot", TRUE)
  <2>2. ExecuteELF(o, psx)
    BY <1>3, <1>6
  <2>3. OptionsOK(o) /\ o.file = "osdboot" /\ o.args = <<>>
    BY PlainOptions
  <2> HIDE DEF o
  <2>4. LoadELF(o) /\ Owed(o)
    BY <1>1, <2>1, <2>2, <2>3, ExecuteOwes, Homes
  <2> QED BY <1>1, <2>4, LoadHolds DEF LoopSame
<1>7. CASE CanMount("system", found) /\ ~(asks /\ found["osdboot"])
  <2>1. mounted' = "system" /\ pc' \in {"osdxosd", "osdhosdsys"} /\ exists'["system"] = "yes"
    BY <1>3, <1>4, <1>7 DEF CanMount, Answer
  <2> QED BY <1>1, <2>1, NotHanding
          DEF MbrHolds, MbrMounts, MbrPaths, OsdHonest, MbrPcs, EarlyPcs, PathPcs, HomePcs, LeftByXOSD,
              MenuPcs, LauncherPcs, LoaderPcs, LoopSame
<1> QED BY <1>5, <1>6, <1>7

LEMMA MbrStep == ASSUME Known, MbrHolds, MbrNext PROVE MbrHolds'
BY EarlyHolds, LinesHold, LoopHolds, RunFsckHolds, MountHolds, HOSDSYSHolds, XOSDHolds, OSDMenuHolds,
   PSBBNHolds, FileHolds, HDDApplicationHolds, DNASHolds, DiscHolds, PS1DiscHolds, PS2DiscHolds,
   ExecOSDHolds DEF MbrNext

\* The loader reads what it was asked for.
LEMMA Agrees == ASSUME Handing' PROVE LoaderAgrees'
<1>1. CASE pc' = "loader"
  <2>1. OptionsOK(asked') /\ handed' = BuildArgs(asked')
    BY <1>1 DEF Handing, LoaderPcs, OptionsOK
  <2>2. Heard(ReadArgs(BuildArgs(asked'))) = Meant(asked')
    BY <2>1, WhatIsRead
  <2>3. Read' = ReadArgs(handed')
    BY DEF Read, ReadArgs
  <2>4. Heard(Read') = Meant(asked')
    BY <2>1, <2>2, <2>3
  <2> QED BY <1>1, <2>4 DEF LoaderAgrees, Heard, Meant
<1>2. CASE pc' # "loader"
  BY <1>2 DEF LoaderAgrees
<1> QED BY <1>1, <1>2

LEMMA BootOfMbr ==
  ASSUME BootInv, MbrNext, UNCHANGED <<launcherVars, menu>>
  PROVE  BootInv'
<1>1. MbrHolds' /\ Known'
  BY MbrStep, MbrGoes, KnownKept DEF BootInv, MbrHolds, FallbackHonest
<1>2. pc' \in MbrPcs \cup StartPcs
  BY MbrGoes
<1>3. MenuMounts' /\ RecoveryHonest' /\ MissHonest'
  BY <1>2 DEF BootInv, MenuMounts, RecoveryHonest, MissHonest, MbrPcs, StartPcs, MenuPcs
<1>4. LauncherMounts'
  BY <1>2 DEF BootInv, LauncherMounts, OptsOK, launcherVars, MbrPcs, StartPcs, LauncherPcs
<1>5. LoaderAgrees' /\ FoundAgain'
  <2>1. FoundAgain'
    BY <1>2 DEF FoundAgain, MbrPcs, StartPcs
  <2> QED BY <1>1, <2>1, Agrees DEF MbrHolds
<1> QED BY <1>1, <1>3, <1>4, <1>5 DEF BootInv, MbrHolds, HandOver, FallbackHonest

-----------------------------------------------------------------------------
(* The loader, and the title *)

\* Nothing is promised of the MBR, the menu and the launcher while none runs.
LEMMA Outside ==
  ASSUME BootInv, UNCHANGED <<mbrVars, launcherVars, menu>>, Kept,
         pc' \in {"loading", "dead", "app"} \cup TitlePcs
  PROVE  /\ Known' /\ MbrMounts' /\ MbrPaths' /\ MenuMounts' /\ LauncherMounts'
         /\ LoaderAgrees' /\ FallbackHonest' /\ MissHonest'
<1> USE DEF TitlePcs
<1>1. Known' /\ LoaderAgrees' /\ MissHonest' /\ FallbackHonest'
  BY KnownKept DEF BootInv, LoaderAgrees, MissHonest, FallbackHonest, OsdHonest, RecoveryHonest
<1>2. MbrMounts' /\ MbrPaths'
  BY DEF BootInv, MbrMounts, MbrPaths, mbrVars, MbrPcs, EarlyPcs, HomePcs, PathPcs, MenuPcs, LauncherPcs
<1>3. MenuMounts' /\ LauncherMounts'
  BY DEF BootInv, MenuMounts, LauncherMounts, OptsOK, launcherVars, MenuPcs, LauncherPcs
<1> QED BY <1>1, <1>2, <1>3

LEMMA Heeded ==
  ASSUME BootInv, pc \in LoaderPcs \cup {"app"}
  PROVE  /\ OptionsOK(asked) /\ handed = BuildArgs(asked) /\ HosdAsked
         /\ pc # "app" => Findable
         /\ pc = "app" => mounted = "none"
         /\ (Read.elf = "none") = ~asked.elf /\ (Read.ioprp = "none") = ~asked.ioprp
         /\ Named = asked.file /\ Read.list = <<asked.file>> \o asked.args
<1>1. /\ OptionsOK(asked) /\ handed = BuildArgs(asked) /\ HosdAsked
      /\ pc # "app" => Findable
      /\ pc = "app" => mounted = "none"
  BY Zenon DEF BootInv, Handing
<1>2. Read = ReadArgs(BuildArgs(asked))
  BY <1>1 DEF Read
<1> QED BY <1>1, <1>2, WhatIsRead, Zenon DEF Named

LEMMA BootOfLoaderMount ==
  ASSUME BootInv, LoaderMount, UNCHANGED <<mbrVars, launcherVars, menu>>
  PROVE  BootInv'
<1>1. /\ OptionsOK(asked) /\ handed = BuildArgs(asked) /\ HosdAsked /\ Findable
      /\ (Read.elf = "none") = ~asked.elf /\ Named = asked.file /\ pc = "loader"
  BY Heeded DEF LoaderMount, LoaderPcs
<1> DEFINE f == asked.file
           mounts == ~asked.elf /\ f \in Files /\ OnPfs(f)
<1>2. PICK there \in BOOLEAN :
        IF ~mounts
          THEN pc' = "loading" /\ there /\ UNCHANGED <<mounted, exists>>
          ELSE /\ Look(Only(Home[f], there))
               /\ IF CanMount(Home[f], Only(Home[f], there))
                    THEN pc' = "loading" /\ mounted' = Home[f]
                    ELSE pc' = "dead" /\ UNCHANGED mounted
  BY <1>1, Zenon DEF LoaderMount
<1>3. UNCHANGED <<asked, handed, drivers, psx>>
  BY DEF LoaderMount, mbrVars
<1>4. Kept /\ pc' \in {"loading", "dead"}
  BY <1>2, KeptLook, KeptSame
<1>5. Known
  BY DEF BootInv
<1>6. CASE pc' = "loading"
  <2>1. HosdAsked'
    BY <1>1, <1>3 DEF HosdAsked
  <2>2. mounts => mounted' = Home[f]
    BY <1>2, <1>6
  <2>3. /\ f \in Files => f \in DOMAIN exists
        /\ f \in Files /\ OnPfs(f) => Home[f] \in DOMAIN exists
    BY <1>5 DEF Known, OnPfs
  <2>4. Findable'
    BY <1>1, <1>3, <1>4, <1>6, <2>2, <2>3 DEF Findable, Kept
  <2>5. OptionsOK(asked)' /\ handed' = BuildArgs(asked')
    BY <1>1, <1>3 DEF OptionsOK
  <2>6. Handing'
    BY <1>6, <2>1, <2>4, <2>5, Zenon DEF Handing
  <2>7. FoundAgain'
    BY <1>6 DEF FoundAgain
  <2> QED BY <1>4, <2>6, <2>7, Outside DEF BootInv, HandOver
<1>7. CASE pc' = "dead"
  <2>1. mounts /\ Look(Only(Home[f], there)) /\ ~CanMount(Home[f], Only(Home[f], there))
    BY <1>2, <1>7
  <2>2. Home[f] \in Partitions /\ DeviceOf(f) = "apa"
    BY <2>1 DEF OnPfs, DeviceOf
  <2>3. asked.checked => exists[Home[f]] = "yes" /\ mounted = "none"
    BY <1>1, <2>1 DEF Findable
  <2>4. asked.checked => "apa" \notin drivers
    <3>1. Home[f] \in DOMAIN Only(Home[f], there)
      BY DEF Only
    <3> QED BY <1>5, <2>1, <2>2, <2>3, <3>1, SeenYes DEF CanMount
  <2>5. FoundAgain'
    BY <1>1, <1>3, <2>1, <2>2, <2>4 DEF FoundAgain, Findable
  <2> QED BY <1>4, <1>7, <2>5, NotHanding, Outside DEF BootInv, HandOver, LoaderPcs
<1> QED BY <1>4, <1>6, <1>7

LEMMA BootOfLoaderStart ==
  ASSUME BootInv, LoaderStart, UNCHANGED <<mbrVars, launcherVars, menu>>
  PROVE  BootInv'
<1>1. /\ OptionsOK(asked) /\ handed = BuildArgs(asked) /\ HosdAsked /\ Findable
      /\ (Read.elf = "none") = ~asked.elf /\ (Read.ioprp = "none") = ~asked.ioprp
      /\ Named = asked.file /\ pc = "loading"
  BY Heeded DEF LoaderStart, LoaderPcs
<1> DEFINE f == asked.file
           looks == ~asked.elf /\ f \in Files
<1>2. PICK there \in BOOLEAN :
        /\ IF looks THEN Look(Only(f, there)) ELSE there /\ UNCHANGED exists
        /\ IF looks /\ ~Opens(f, Only(f, there), mounted)
             THEN pc' = "dead" /\ UNCHANGED <<mounted, bay>>
             ELSE /\ pc' = IF asked.ioprp THEN "dead" ELSE "app"
                  /\ mounted' = "none"
                  /\ bay' = PowerOf(Read.dev9)
  BY <1>1, Zenon DEF LoaderStart
<1>3. UNCHANGED <<asked, handed, drivers, psx>>
  BY DEF LoaderStart, mbrVars
<1>4. Kept /\ pc' \in {"app", "dead"} /\ Known
  BY <1>2, KeptLook, KeptSame DEF BootInv
<1>5. CASE pc' = "app"
  <2>1. HosdAsked' /\ mounted' = "none"
    BY <1>1, <1>2, <1>3, <1>5 DEF HosdAsked
  <2>2. OptionsOK(asked)' /\ handed' = BuildArgs(asked')
    BY <1>1, <1>3 DEF OptionsOK
  <2>3. Handing'
    BY <1>5, <2>1, <2>2, Zenon DEF Handing
  <2>4. FoundAgain'
    BY <1>5 DEF FoundAgain
  <2> QED BY <1>4, <2>3, <2>4, Outside DEF BootInv, HandOver
<1>6. CASE pc' = "dead"
  <2>1. asked.ioprp \/ (looks /\ Look(Only(f, there)) /\ ~Opens(f, Only(f, there), mounted))
    BY <1>2, <1>6
  <2>2. CASE asked.ioprp
    BY <1>3, <1>4, <1>6, <2>2, NotHanding, Outside DEF BootInv, HandOver, LoaderPcs, FoundAgain
  <2>3. CASE looks /\ Look(Only(f, there)) /\ ~Opens(f, Only(f, there), mounted)
    <3>1. f \in DOMAIN Only(f, there)
      BY DEF Only
    <3>2. asked.checked => Only(f, there)[f]
      <4> SUFFICES ASSUME asked.checked PROVE Only(f, there)[f]
        OBVIOUS
      <4>1. exists[f] = "yes"
        BY <1>1, <2>3 DEF Findable
      <4> QED BY <1>4, <2>3, <3>1, <4>1, SeenYes
    <3>3. asked.checked => psx /\ DeviceOf(f) \notin drivers
      BY <1>1, <2>3, <3>2 DEF Findable, Opens
    <3>4. FoundAgain'
      BY <1>3, <2>3, <3>3 DEF FoundAgain
    <3> QED BY <1>4, <1>6, <3>4, NotHanding, Outside DEF BootInv, HandOver, LoaderPcs
  <2> QED BY <2>1, <2>2, <2>3
<1> QED BY <1>4, <1>5, <1>6

LEMMA BootOfEgsm ==
  ASSUME BootInv, EgsmNext, UNCHANGED <<loaderVars, mbrVars, launcherVars, menu>>
  PROVE  BootInv'
<1>1. pc' \in TitlePcs /\ Kept
  BY EgsmGoes, KeptSame
<1>2. Handing' /\ FoundAgain'
  BY <1>1, NotHanding DEF TitlePcs, LoaderPcs, FoundAgain
<1> QED BY <1>1, <1>2, Outside DEF BootInv, HandOver

-----------------------------------------------------------------------------
(* The menu *)

\* Where no program before is running, and the launcher has not started.
LEMMA InMenu ==
  ASSUME pc' \in MenuPcs \cup {"exit", "rom", "title"}, Known', MbrPaths', MenuMounts', OptsOK',
         RecoveryHonest'
  PROVE  BootInv'
<1> USE DEF MenuPcs
<1>1. Handing' /\ HandOver'
  BY NotHanding DEF LoaderPcs, HandOver, FoundAgain, LoaderAgrees
<1>2. MbrMounts' /\ LauncherMounts'
  BY DEF MbrMounts, LauncherMounts, MbrPcs, EarlyPcs, HomePcs, LauncherPcs
<1>3. OsdHonest' /\ MissHonest'
  BY DEF OsdHonest, MissHonest
<1> QED BY <1>1, <1>2, <1>3 DEF BootInv, FallbackHonest

\* The launcher begins.
LEMMA AtMain ==
  ASSUME pc' = "l_main", mounted' = "none", target' = "none", OptsOK', Known', MbrPaths', MenuMounts'
  PROVE  BootInv'
<1>1. Handing' /\ HandOver'
  BY NotHanding DEF LoaderPcs, HandOver, FoundAgain, LoaderAgrees
<1>2. MbrMounts' /\ LauncherMounts'
  BY DEF MbrMounts, LauncherMounts, MbrPcs, EarlyPcs, HomePcs, LauncherPcs
<1>3. OsdHonest' /\ MissHonest' /\ RecoveryHonest'
  BY DEF OsdHonest, MissHonest, RecoveryHonest
<1> QED BY <1>1, <1>2, <1>3 DEF BootInv, FallbackHonest

LEMMA SameMbr ==
  ASSUME BootInv, pc \in MenuPcs, UNCHANGED mbrVars, pc' \notin PathPcs \cup {"patinfo"}
  PROVE  MbrPaths'
BY DEF BootInv, MbrPaths, mbrVars

LEMMA LoadConfigBoot ==
  ASSUME BootInv, LoadConfig, UNCHANGED <<mbrVars, launcherVars>> PROVE BootInv'
<1>1. /\ pc = "m_config" /\ pc' = "m_osdr" /\ mounted' = mounted
      /\ \E found : Look(found)
      /\ menu' = menu \/ \E c, s : menu' = [menu EXCEPT !.conf = c, !.slot = s]
  BY DEF LoadConfig
<1>2. mounted = "none" /\ DOMAIN menu = {"slot", "conf", "short", "psx"} /\ OptsOK /\ Known
  BY <1>1 DEF BootInv, MenuMounts, MenuPcs, LauncherMounts
<1>3. MenuMounts' /\ OptsOK' /\ Known'
  BY <1>1, <1>2, KeptLook, KnownKept DEF MenuMounts, OptsOK, launcherVars
<1>4. MbrPaths'
  BY <1>1, SameMbr DEF MenuPcs, PathPcs
<1> QED BY <1>1, <1>3, <1>4, InMenu DEF MenuPcs, RecoveryHonest

LEMMA LaunchOSDSYSBoot ==
  ASSUME BootInv, LaunchOSDSYS, UNCHANGED <<mbrVars, launcherVars>> PROVE BootInv'
<1>1. /\ pc = "m_osdr" /\ pc' \in {"m_osd", "exit"} /\ mounted' = "none" /\ exists' = exists
      /\ menu' = [menu EXCEPT !.psx = FALSE]
  BY DEF LaunchOSDSYS
<1>2. MenuMounts' /\ OptsOK' /\ Known'
  BY <1>1 DEF BootInv, MenuMounts, OptsOK, launcherVars, LauncherMounts, Known
<1>3. MbrPaths'
  BY <1>1, SameMbr DEF MenuPcs, PathPcs
<1> QED BY <1>1, <1>2, <1>3, InMenu DEF MenuPcs, RecoveryHonest

LEMMA LoadConfigHddBoot ==
  ASSUME BootInv, LoadConfigHdd, UNCHANGED <<mbrVars, launcherVars>> PROVE BootInv'
<1>1. pc = "m_sysconf" /\ drivers' = drivers
  BY DEF LoadConfigHdd
<1>2. /\ mounted = "none" /\ "apa" \in drivers /\ DOMAIN menu = {"slot", "conf", "short", "psx"}
      /\ OptsOK /\ Known
  BY <1>1 DEF BootInv, MenuMounts, MenuPcs, LauncherMounts
<1>3. PICK found \in [{"sysconf", "hcnf"} -> BOOLEAN] :
        IF CanMount("sysconf", found)
          THEN /\ Look(found)
               /\ menu' = [menu EXCEPT !.conf = IF found["hcnf"] THEN "hcnf" ELSE "none"]
               /\ mounted' = AfterConfig
               /\ pc' = "m_system"
          ELSE /\ found["hcnf"] /\ Look(Only("sysconf", found["sysconf"]))
               /\ pc' = "m_recovery"
               /\ UNCHANGED <<menu, mounted>>
  BY Zenon DEF LoadConfigHdd
<1>4. pc' \in {"m_system", "m_recovery"} /\ mounted' = "none" /\ DOMAIN menu' = DOMAIN menu
  BY <1>2, <1>3 DEF AfterConfig
<1>5. Known'
  BY <1>2, <1>3, KeptLook, KnownKept
<1>6. OptsOK' /\ MenuMounts'
  BY <1>1, <1>2, <1>4 DEF MenuMounts, OptsOK, launcherVars
<1>7. MbrPaths'
  BY <1>1, <1>4, SameMbr DEF MenuPcs, PathPcs
<1>8. RecoveryHonest'
  <2> SUFFICES ASSUME pc' = "m_recovery" PROVE exists'["sysconf"] = "no"
    BY DEF RecoveryHonest
  <2>1. ~found["sysconf"] /\ Look(Only("sysconf", found["sysconf"]))
    BY <1>2, <1>3 DEF CanMount
  <2>2. "sysconf" \in DOMAIN Only("sysconf", found["sysconf"])
        /\ Only("sysconf", found["sysconf"])["sysconf"] = found["sysconf"]
    BY DEF Only
  <2> QED BY <1>2, <2>1, <2>2, SeenYes, Homes
<1> QED BY <1>4, <1>5, <1>6, <1>7, <1>8, InMenu DEF MenuPcs

LEMMA LaunchHddOsdBoot ==
  ASSUME BootInv, LaunchHddOsd, UNCHANGED <<mbrVars, launcherVars>> PROVE BootInv'
<1> DEFINE look(found) == IF CanMount("system", found) THEN found ELSE Only("system", found["system"])
<1>1. pc = "m_system" /\ menu' = menu
  BY DEF LaunchHddOsd
<1>2. /\ mounted = "none" /\ "apa" \in drivers /\ DOMAIN menu = {"slot", "conf", "short", "psx"}
      /\ OptsOK /\ Known
  BY <1>1 DEF BootInv, MenuMounts, MenuPcs, LauncherMounts
<1>3. PICK found \in [{"system", "osdimage"} -> BOOLEAN] :
        /\ Look(look(found))
        /\ mounted' = IF CanMount("system", found) THEN "none" ELSE mounted
        /\ IF CanMount("system", found) /\ found["osdimage"]
             THEN pc' = "m_osd" /\ drivers' = {}
             ELSE pc' = "m_recovery" /\ UNCHANGED drivers
  BY Zenon DEF LaunchHddOsd
<1>4. pc' \in {"m_osd", "m_recovery"} /\ mounted' = "none"
  BY <1>2, <1>3
<1>5. Known'
  BY <1>2, <1>3, KeptLook, KnownKept
<1>6. OptsOK' /\ MenuMounts'
  BY <1>1, <1>2, <1>4 DEF MenuMounts, OptsOK, launcherVars
<1>7. MbrPaths'
  BY <1>1, <1>4, SameMbr DEF MenuPcs, PathPcs
<1>8. RecoveryHonest'
  <2> SUFFICES ASSUME pc' = "m_recovery" PROVE exists'["system"] = "no" \/ exists'["osdimage"] = "no"
    BY DEF RecoveryHonest
  <2>1. CASE CanMount("system", found)
    <3>1. Look(found) /\ ~found["osdimage"]
      BY <1>3, <2>1
    <3> QED BY <1>2, <3>1, SeenYes, Homes
  <2>2. CASE ~CanMount("system", found)
    <3>1. Look(Only("system", found["system"])) /\ ~found["system"]
      BY <1>2, <1>3, <2>2 DEF CanMount
    <3>2. "system" \in DOMAIN Only("system", found["system"])
          /\ Only("system", found["system"])["system"] = found["system"]
      BY DEF Only
    <3> QED BY <1>2, <3>1, <3>2, SeenYes, Homes
  <2> QED BY <2>1, <2>2
<1> QED BY <1>4, <1>5, <1>6, <1>7, <1>8, InMenu DEF MenuPcs

LEMMA LaunchBoot ==
  ASSUME BootInv, HandleMenuEntry \/ LaunchUnlisted \/ LaunchPayload, UNCHANGED mbrVars
  PROVE  BootInv'
<1>1. /\ pc \in MenuPcs /\ \E item : LaunchItem(item)
      /\ menu' = menu \/ menu' = NoMenu
  BY DEF HandleMenuEntry, LaunchUnlisted, LaunchPayload, MenuPcs
<1>2. /\ pc' = "l_main" /\ target' = "none" /\ opts' = NoOpts /\ mounted' = mounted
      /\ DOMAIN exists' = DOMAIN exists
  BY <1>1 DEF LaunchItem, LauncherMain
<1>3. mounted = "none" /\ DOMAIN menu = {"slot", "conf", "short", "psx"} /\ Known
  BY <1>1 DEF BootInv, MenuMounts
<1>4. OptsOK' /\ Known' /\ MenuMounts'
  BY <1>1, <1>2, <1>3 DEF OptsOK, NoOpts, Known, MenuMounts, NoMenu, MenuPcs
<1>5. MbrPaths'
  BY <1>1, <1>2, SameMbr DEF PathPcs
<1> QED BY <1>2, <1>3, <1>4, <1>5, AtMain

LEMMA OsdLeavesBoot ==
  ASSUME BootInv, OsdLeaves, UNCHANGED mbrVars PROVE BootInv'
<1>1. pc = "m_osd" /\ pc' = "rom" /\ menu' = NoMenu /\ UNCHANGED <<exists, launcherVars>>
  BY DEF OsdLeaves
<1>2. OptsOK' /\ Known' /\ MenuMounts'
  BY <1>1 DEF BootInv, LauncherMounts, OptsOK, launcherVars, Known, MenuMounts, NoMenu, MenuPcs
<1>3. MbrPaths'
  BY <1>1, SameMbr DEF PathPcs, MenuPcs
<1> QED BY <1>1, <1>2, <1>3, InMenu DEF RecoveryHonest

LEMMA BootOfMenu == ASSUME BootInv, MenuNext, UNCHANGED mbrVars PROVE BootInv'
BY LoadConfigBoot, LaunchOSDSYSBoot, LoadConfigHddBoot, LaunchHddOsdBoot, LaunchBoot, OsdLeavesBoot
   DEF MenuNext

-----------------------------------------------------------------------------
(* One program after another *)

LEMMA Forgets == ASSUME BootInv, Replaced, Forgotten PROVE Known' /\ (pc' \notin PathPcs => MbrPaths')
<1>1. Known'
  BY DEF BootInv, Known, Forgotten
<1>2. /\ lines' = 0 /\ paths' = <<>> /\ after' = "args"
      /\ DOMAIN at' = {"e", "n", "kind", "file"} /\ at'.file = "none"
  BY DEF Replaced
<1>3. paths' \in Seq(PathEntry)
  BY <1>2
<1> QED BY <1>1, <1>2, <1>3 DEF MbrPaths

LEMMA BootOfStartMenu == ASSUME BootInv, StartMenu PROVE BootInv'
<1>1. /\ pc = "app" /\ Replaced /\ Forgotten /\ UNCHANGED launcherVars
      /\ \/ EnterOSDMenu(asked.file, psxHw)
         \/ asked.file = "hosdmenu" /\ EnterHOSDMenu(Last(Read.list) = "-mbrboot")
  BY DEF StartMenu
<1>2. OptsOK'
  BY <1>1 DEF BootInv, LauncherMounts, OptsOK, launcherVars
<1>3. Known' /\ (pc' \notin PathPcs => MbrPaths')
  BY <1>1, Forgets
<1>4. CASE EnterOSDMenu(asked.file, psxHw)
  <2>1. pc' = "m_config" /\ mounted' = "none" /\ DOMAIN menu' = {"slot", "conf", "short", "psx"}
    BY <1>4 DEF EnterOSDMenu, NoMenu
  <2> QED BY <1>2, <1>3, <2>1, InMenu DEF MenuMounts, MenuPcs, PathPcs, RecoveryHonest
<1>5. CASE asked.file = "hosdmenu" /\ EnterHOSDMenu(Last(Read.list) = "-mbrboot")
  <2> DEFINE short == (Last(Read.list) = "-mbrboot")
  <2>1. /\ HosdAsked /\ mounted = "none" /\ Read.list = <<asked.file>> \o asked.args
    BY <1>1, Heeded
  <2>2. short => "apa" \in drivers
    <3>1. CASE asked.args = <<>>
      <4>1. Read.list = <<"hosdmenu">>
        BY <1>5, <2>1, <3>1
      <4> QED BY <4>1 DEF Last
    <3>2. CASE asked.args # <<>>
      BY <1>5, <2>1, <3>2 DEF HosdAsked
    <3> QED BY <3>1, <3>2
  <2>3. EnterHOSDMenu(short)
    BY <1>5
  <2>4. short \in BOOLEAN
    OBVIOUS
  <2> HIDE DEF short
  <2>5. /\ DOMAIN menu' = {"slot", "conf", "short", "psx"} /\ menu'.short = short
        /\ mounted' = "none"
        /\ \/ pc' = "m_sysconf" /\ "apa" \in drivers'
           \/ pc' = "m_recovery" /\ drivers' = {} /\ ~short
    BY <2>1, <2>2, <2>3, <2>4 DEF EnterHOSDMenu, NoMenu
  <2>6. MenuMounts' /\ RecoveryHonest' /\ pc' \in {"m_sysconf", "m_recovery"}
    BY <2>5 DEF MenuMounts, RecoveryHonest
  <2> QED BY <1>2, <1>3, <2>6, InMenu DEF MenuPcs, PathPcs
<1> QED BY <1>1, <1>4, <1>5

LEMMA BootOfStartLauncher == ASSUME BootInv, StartLauncher PROVE BootInv'
<1>1. /\ pc = "app" /\ Replaced /\ Forgotten /\ UNCHANGED <<mounted, menu>>
      /\ pc' = "l_main" /\ target' = "none"
      /\ opts' \in {NoOpts, [NoOpts EXCEPT !.gsm = TRUE], [NoOpts EXCEPT !.patinfo = TRUE]}
  BY DEF StartLauncher, LauncherMain
<1>2. mounted' = "none"
  BY <1>1, Heeded
<1>3. OptsOK'
  <2>1. CASE opts' = NoOpts
    BY <2>1 DEF OptsOK, NoOpts
  <2>2. CASE opts' = [NoOpts EXCEPT !.gsm = TRUE]
    BY <2>2 DEF OptsOK, NoOpts
  <2>3. CASE opts' = [NoOpts EXCEPT !.patinfo = TRUE]
    BY <2>3 DEF OptsOK, NoOpts
  <2> QED BY <1>1, <2>1, <2>2, <2>3
<1>4. MenuMounts'
  BY <1>1 DEF BootInv, MenuMounts, MenuPcs
<1>5. Known' /\ MbrPaths'
  BY <1>1, Forgets DEF PathPcs
<1> QED BY <1>1, <1>2, <1>3, <1>4, <1>5, AtMain

LEMMA BootOfStartTitle == ASSUME BootInv, StartTitle PROVE BootInv'
<1>1. /\ pc' = "title" /\ Replaced /\ Forgotten /\ opts' = NoOpts /\ menu' = NoMenu
  BY DEF StartTitle
<1>2. OptsOK' /\ MenuMounts' /\ RecoveryHonest'
  BY <1>1 DEF OptsOK, NoOpts, MenuMounts, NoMenu, MenuPcs, RecoveryHonest
<1>3. Known' /\ MbrPaths'
  BY <1>1, Forgets DEF PathPcs
<1> QED BY <1>1, <1>2, <1>3, InMenu

LEMMA BootInit == Init => BootInv
<1> SUFFICES ASSUME Init PROVE BootInv
  OBVIOUS
<1>1. /\ pc = "init" /\ mounted = "none" /\ DOMAIN exists = Files \cup Partitions
      /\ lines = 0 /\ paths = <<>> /\ after = "args" /\ opts = NoOpts /\ menu = NoMenu
      /\ at = [e |-> 0, n |-> 0, kind |-> "none", file |-> "none"]
  BY DEF Init, ConsoleInit, LoaderInit, MbrInit, LauncherInit, MenuInit
<1>2. Known /\ MbrMounts /\ Handing
  BY <1>1 DEF Known, MbrMounts, EarlyPcs, HomePcs, MbrPcs, Handing, LoaderPcs
<1>3. MbrPaths
  <2>1. paths \in Seq(PathEntry)
    BY <1>1
  <2> QED BY <1>1, <2>1 DEF MbrPaths, PathPcs
<1>4. MenuMounts /\ LauncherMounts
  BY <1>1 DEF MenuMounts, NoMenu, MenuPcs, LauncherMounts, OptsOK, NoOpts, LauncherPcs
<1>5. HandOver /\ FallbackHonest /\ MissHonest
  BY <1>1 DEF HandOver, LoaderAgrees, FoundAgain, FallbackHonest, OsdHonest, RecoveryHonest, MissHonest
<1> QED BY <1>2, <1>3, <1>4, <1>5 DEF BootInv

LEMMA BootStutter == ASSUME BootInv, UNCHANGED vars PROVE BootInv'
<1>1. UNCHANGED <<pc, mounted, drivers, exists, asked, handed, psx, lines, paths, trigger, at, after>>
  BY DEF vars, consoleVars, loaderVars, mbrVars
<1>2. UNCHANGED <<current, hint, opts, left, target, menu>>
  BY DEF vars, launcherVars
<1>3. Known' /\ MbrMounts' /\ MbrPaths'
  BY <1>1 DEF BootInv, Known, MbrMounts, MbrPaths, LeftByXOSD
<1>4. Handing'
  BY <1>1 DEF BootInv, Handing, HosdAsked, Findable, OptionsOK
<1>5. MenuMounts' /\ LauncherMounts'
  BY <1>1, <1>2 DEF BootInv, MenuMounts, LauncherMounts, OptsOK, HeldByDisc, DevicesOf
<1>6. FoundAgain' /\ FallbackHonest' /\ LoaderAgrees'
  BY <1>1, <1>2, <1>4, Agrees DEF BootInv, HandOver, FoundAgain, FallbackHonest, OsdHonest, RecoveryHonest
<1>7. MissHonest'
  BY <1>1, <1>2 DEF BootInv, MissHonest, There, Served
<1> QED BY <1>3, <1>4, <1>5, <1>6, <1>7 DEF BootInv, HandOver

-----------------------------------------------------------------------------
(* The launcher *)

LEMMA InLauncher ==
  ASSUME BootInv, pc \in LauncherPcs, pc' \in LauncherPcs \cup {"osdsys", "rom"},
         UNCHANGED <<mbrVars, menu>>, Kept, LauncherMounts', MissHonest'
  PROVE  BootInv'
<1> USE DEF LauncherPcs
<1>1. Handing' /\ HandOver'
  BY NotHanding DEF LoaderPcs, HandOver, FoundAgain, LoaderAgrees
<1>2. lines = 0
  BY DEF BootInv, MbrPaths
<1>3. MbrMounts' /\ MbrPaths' /\ MenuMounts'
  BY DEF BootInv, MbrMounts, MbrPaths, MenuMounts, mbrVars, MbrPcs, EarlyPcs, HomePcs, PathPcs, MenuPcs
<1>4. Known' /\ FallbackHonest'
  BY <1>2, KnownKept DEF BootInv, FallbackHonest, OsdHonest, RecoveryHonest, mbrVars
<1> QED BY <1>1, <1>3, <1>4 DEF BootInv

LEMMA Leaves ==
  ASSUME BootInv, pc \in LauncherPcs, UNCHANGED <<mbrVars, menu>>, Kept, OptsOK',
         NEW o, LoadELF(o), Owed(o)
  PROVE  BootInv'
<1>1. pc' = "loader" /\ Handing'
  BY LoadHands DEF LoadELF
<1>2. LoaderAgrees' /\ FoundAgain'
  BY <1>1, Agrees DEF FoundAgain
<1>3. MbrMounts' /\ MbrPaths' /\ MenuMounts'
  BY <1>1 DEF BootInv, MbrMounts, MbrPaths, MenuMounts, mbrVars, MbrPcs, EarlyPcs, HomePcs, PathPcs,
              MenuPcs, LauncherPcs
<1>4. Known' /\ FallbackHonest' /\ MissHonest' /\ LauncherMounts'
  BY <1>1, KnownKept DEF BootInv, FallbackHonest, OsdHonest, RecoveryHonest, MissHonest, LauncherMounts,
                         LauncherPcs
<1> QED BY <1>1, <1>2, <1>3, <1>4 DEF BootInv, HandOver

\* Loading drivers frees pfs0:, or leaves it alone.
LEMMA Loads ==
  ASSUME NEW D, NEW ok \in BOOLEAN, LoadModules(D, ok)
  PROVE  /\ mounted' = "none" \/ mounted' = mounted
         /\ ok /\ D # {} => current' \cap D # {}
         /\ ~ok => drivers' # Served(current')
<1>1. ~ok => drivers' = {}
  BY DEF LoadModules
<1>2. ~ok => "mc" \in Served(current')
  BY DEF Served
<1>3. ok /\ D # {} => current' \cap D # {}
  BY DEF LoadModules, Present
<1>4. mounted' = "none" \/ mounted' = mounted
  BY DEF LoadModules
<1> QED BY <1>1, <1>2, <1>3, <1>4

\* The first list of targets: nothing has been tried yet.
LEMMA Started ==
  ASSUME BootInv, pc \in {"l_main", "l_osdmhdd", "l_quickhdd"}, UNCHANGED <<mbrVars, menu, opts>>, Kept,
         mounted' = "none" \/ (pc' = "l_next" /\ left' = 0),
         \/ pc' \in {"l_next", "l_cdinit", "l_dkwdrv", "l_osdmhdd", "l_quickhdd"} /\ target' = target
         \/ pc' \in {"l_launch", "osdsys"}
  PROVE  BootInv'
<1>1. target = "none" /\ OptsOK
  BY DEF BootInv, LauncherMounts
<1>2. LauncherMounts'
  BY <1>1 DEF LauncherMounts, OptsOK, LauncherPcs
<1>3. MissHonest'
  <2>1. ~There("none")'
    BY DEF There
  <2> QED BY <1>1, <2>1 DEF MissHonest, There
<1> QED BY <1>2, <1>3, InLauncher DEF LauncherPcs

LEMMA MainPathBoot == ASSUME BootInv, MainPath, UNCHANGED <<mbrVars, menu>> PROVE BootInv'
<1>1. pc = "l_main" /\ pc' = "l_launch" /\ mounted' = mounted /\ Kept /\ opts' = opts
  BY KeptSame DEF MainPath
<1>2. mounted = "none"
  BY <1>1 DEF BootInv, LauncherMounts
<1> QED BY <1>1, <1>2, Started

LEMMA OpenOsdmBoot == ASSUME BootInv, OpenOsdm, UNCHANGED <<mbrVars, menu>> PROVE BootInv'
<1>1. pc = "l_main" /\ opts' = opts /\ Kept
  BY KeptLook DEF OpenOsdm
<1>2. mounted = "none"
  BY <1>1 DEF BootInv, LauncherMounts
<1>3. mounted' = "none"
  <2>1. (\E D : \E ok \in BOOLEAN : LoadModules(D, ok)) \/ mounted' = mounted
    BY Zenon DEF OpenOsdm
  <2> QED BY <1>2, <2>1, Loads
<1>4. ChooseEntry \/ ListFails
  BY Zenon DEF OpenOsdm
<1> QED BY <1>1, <1>3, <1>4, Started DEF ChooseEntry, ListFails

LEMMA LoadDiskBoot == ASSUME BootInv, LoadDisk, UNCHANGED <<mbrVars, menu>> PROVE BootInv'
<1>1. pc = "l_main" /\ opts' = opts /\ Kept
  BY KeptSame DEF LoadDisk
<1>2. mounted = "none"
  BY <1>1 DEF BootInv, LauncherMounts
<1>3. mounted' = "none"
  <2>1. \E D : \E ok \in BOOLEAN : LoadModules(D, ok)
    BY Zenon DEF LoadDisk
  <2> QED BY <1>2, <2>1, Loads
<1>4. pc' \in {"l_next", "l_osdmhdd", "l_quickhdd"} /\ target' = target
  BY DEF LoadDisk, ListFails
<1> QED BY <1>1, <1>3, <1>4, Started

LEMMA OpenOsdmHddBoot == ASSUME BootInv, OpenOsdmHdd, UNCHANGED <<mbrVars, menu>> PROVE BootInv'
<1>1. pc = "l_osdmhdd" /\ opts' = opts /\ Kept /\ mounted' = mounted
  BY KeptLook DEF OpenOsdmHdd
<1>2. mounted = "none"
  BY <1>1 DEF BootInv, LauncherMounts
<1>3. ChooseEntry \/ ListFails
  BY Zenon DEF OpenOsdmHdd
<1> QED BY <1>1, <1>2, <1>3, Started DEF ChooseEntry, ListFails

LEMMA QuickbootBoot ==
  ASSUME BootInv, Quickboot \/ QuickbootHdd, UNCHANGED <<mbrVars, menu>> PROVE BootInv'
<1>1. CASE Quickboot
  <2>1. pc = "l_main" /\ opts' = opts /\ Kept
    BY <1>1, KeptSame DEF Quickboot
  <2>2. mounted = "none"
    BY <2>1 DEF BootInv, LauncherMounts
  <2>3. mounted' = "none"
    <3>1. \E D : \E ok \in BOOLEAN : LoadModules(D, ok)
      BY <1>1, Zenon DEF Quickboot
    <3> QED BY <2>2, <3>1, Loads
  <2>4. pc' = "l_next" /\ target' = target
    BY <1>1 DEF Quickboot, ChoosePaths, ListFails
  <2> QED BY <2>1, <2>3, <2>4, Started
<1>2. CASE QuickbootHdd
  <2>1. pc = "l_quickhdd" /\ opts' = opts /\ Kept
    BY <1>2, KeptLook DEF QuickbootHdd
  <2>2. pc' = "l_next" /\ target' = target /\ (mounted' = "none" \/ left' = 0)
    BY <1>2 DEF QuickbootHdd, ChoosePaths, ListFails, AfterQuickboot
  <2> QED BY <2>1, <2>2, Started
<1> QED BY <1>1, <1>2

\* Later on, a target that is no file is not missed.
LEMMA GoesOn ==
  ASSUME BootInv, pc \in LauncherPcs, UNCHANGED <<mbrVars, menu>>, Kept, OptsOK',
         pc' \in {"l_next", "l_launch", "osdsys", "rom"}, mounted' = "none" \/ HeldByDisc',
         pc' = "l_next" => target' \in {"none", "cdrom", "rom", "bad"}
  PROVE  BootInv'
<1>1. LauncherMounts'
  BY DEF LauncherMounts, LauncherPcs
<1>2. MissHonest'
  <2>1. \A t \in {"none", "cdrom", "rom", "bad"} : ~There(t)'
    BY DEF There
  <2> QED BY <2>1 DEF MissHonest, There
<1> QED BY <1>1, <1>2, InLauncher DEF LauncherPcs

LEMMA NextTargetBoot == ASSUME BootInv, NextTarget, UNCHANGED <<mbrVars, menu>> PROVE BootInv'
<1>1. /\ pc = "l_next" /\ UNCHANGED <<opts, mounted, hint>> /\ Kept
      /\ pc' = "osdsys" \/ (pc' = "l_launch" /\ left # 0)
  BY KeptSame DEF NextTarget
<1>2. OptsOK /\ (mounted = "none" \/ HeldByDisc \/ left = 0)
  BY <1>1 DEF BootInv, LauncherMounts, LauncherPcs
<1>3. CASE pc' = "osdsys"
  <2>1. LauncherMounts' /\ MissHonest'
    BY <1>1, <1>2, <1>3 DEF LauncherMounts, MissHonest, OptsOK, LauncherPcs
  <2> QED BY <1>1, <1>3, <2>1, InLauncher DEF LauncherPcs
<1>4. CASE pc' = "l_launch" /\ left # 0
  BY <1>1, <1>2, <1>4, GoesOn DEF OptsOK, HeldByDisc, LauncherPcs
<1> QED BY <1>1, <1>3, <1>4

LEMMA LaunchDeviceBoot == ASSUME BootInv, LaunchDevice, UNCHANGED <<mbrVars, menu>> PROVE BootInv'
<1>1. /\ pc = "l_launch" /\ DevicesOf(target) # {} /\ UNCHANGED <<opts, hint, target>> /\ Kept
  BY KeptSame DEF LaunchDevice
<1>2. PICK ok \in BOOLEAN :
        LoadModules(DevicesOf(target), ok) /\ pc' = IF ok THEN "l_probe" ELSE "l_next"
  BY DEF LaunchDevice
<1>3. OptsOK /\ (mounted = "none" \/ HeldByDisc)
  BY <1>1 DEF BootInv, LauncherMounts, LauncherPcs
<1>4. /\ mounted' = "none" \/ mounted' = mounted
      /\ ok => current' \cap DevicesOf(target) # {}
      /\ ~ok => drivers' # Served(current')
  BY <1>1, <1>2, Loads
<1>5. DevicesOf(target') = DevicesOf(target)
  BY <1>1
<1>6. LauncherMounts'
  <2>1. pc' = "l_probe" => current' \cap DevicesOf(target') # {}
    BY <1>2, <1>4, <1>5
  <2>2. OptsOK' /\ (mounted' = "none" \/ HeldByDisc')
    BY <1>1, <1>3, <1>4 DEF OptsOK, HeldByDisc
  <2> QED BY <1>2, <2>1, <2>2 DEF LauncherMounts, DevicesOf
<1>7. MissHonest'
  BY <1>2, <1>4 DEF MissHonest, Served
<1> QED BY <1>1, <1>2, <1>6, <1>7, InLauncher DEF LauncherPcs

LEMMA LaunchOtherBoot ==
  ASSUME BootInv, LaunchOther \/ ExecROMPath, UNCHANGED <<mbrVars, menu>> PROVE BootInv'
<1>1. /\ pc = "l_launch" /\ UNCHANGED <<opts, hint, target>> /\ Kept
      /\ mounted' = "none" \/ mounted' = mounted
      /\ \/ target = "cdrom" /\ pc' = "l_cdinit"
         \/ target \in {"bad", "rom"} /\ pc' \in {"l_next", "rom"}
  BY KeptSame DEF LaunchOther, ExecROMPath, launcherVars
<1>2. OptsOK' /\ (mounted' = "none" \/ HeldByDisc')
  BY <1>1 DEF BootInv, LauncherMounts, LauncherPcs, OptsOK, HeldByDisc
<1>3. CASE pc' = "l_cdinit"
  <2>1. LauncherMounts' /\ MissHonest'
    BY <1>1, <1>2, <1>3 DEF LauncherMounts, MissHonest
  <2> QED BY <1>1, <1>3, <2>1, InLauncher DEF LauncherPcs
<1>4. CASE pc' \in {"l_next", "rom"}
  BY <1>1, <1>2, <1>4, GoesOn DEF LauncherPcs
<1> QED BY <1>1, <1>3, <1>4

\* What a target of the launcher owes the loader.
LEMMA LoadFromOwed ==
  ASSUME OptsOK, NEW f \in Files, f # "hosdmenu", LoadFrom(f),
         exists'[f] = "yes", DeviceOf(f) \in drivers',
         OnPfs(f) => exists'[Home[f]] = "yes" /\ mounted' = "none"
  PROVE  \E o : LoadELF(o) /\ Owed(o)
<1> DEFINE o == [Options(f, TRUE) EXCEPT !.gsm = opts.gsm, !.skip = opts.skip, !.dev9 = opts.dev9]
<1>1. LoadELF(o)
  BY Zenon DEF LoadFrom
<1>2. OptionsOK(o) /\ o.file = f
  BY DEF OptsOK, Options, OptionsOK
<1> HIDE DEF o
<1>3. Owed(o)
  BY <1>2 DEF Owed
<1> QED BY <1>1, <1>3

\* The drivers that are there serve the device of a target.
LEMMA DriverOf ==
  ASSUME current \cap DevicesOf(target) # {}, drivers = Served(current)
  PROVE  /\ target \in {"mc?", "mc0", "mc1"} => "mc" \in drivers
         /\ target \in {"usb?", "usb0"} => "usb" \in drivers
         /\ target = "ata" => "ata" \in drivers
         /\ target = "udpfs" => "udpfs" \in drivers
         /\ target \in {"xfrom", "xdkwdrv"} => "xfrom" \in drivers
         /\ target \in {"pfs", "dkwdrv"} => "apa" \in drivers
         /\ target = "patinfo" /\ "APA" \in current => "apa" \in drivers
BY DEF DevicesOf, Served

LEMMA Missed ==
  ASSUME BootInv, pc = "l_probe", pc' = "l_next", UNCHANGED <<mbrVars, menu, launcherVars, mounted, drivers>>, Kept,
         There(target)' => drivers # Served(current) \/ HeldByDisc
                             \/ (target = "patinfo" /\ "APA" \notin current)
  PROVE  BootInv'
<1>1. LauncherMounts'
  BY DEF BootInv, LauncherMounts, launcherVars, OptsOK, HeldByDisc, LauncherPcs
<1>2. MissHonest'
  BY DEF MissHonest, launcherVars, HeldByDisc, Served
<1> QED BY <1>1, <1>2, InLauncher DEF LauncherPcs

LEMMA ProbeFileBoot == ASSUME BootInv, ProbeFile, UNCHANGED <<mbrVars, menu>> PROVE BootInv'
<1> DEFINE s == Units(target)
           good(found) == SelectInSeq(s, LAMBDA f : Opens(f, found, mounted))
<1>1. /\ pc = "l_probe" /\ target \in {"mc?", "mc0", "mc1", "ata", "usb0", "udpfs", "xfrom", "xdkwdrv"}
      /\ UNCHANGED <<mounted, drivers, launcherVars>>
  BY DEF ProbeFile
<1>2. PICK found \in [{s[i] : i \in DOMAIN s} -> BOOLEAN] :
        /\ Look(found)
        /\ IF good(found) > 0 THEN LoadFrom(s[good(found)]) ELSE pc' = "l_next" /\ UNCHANGED loaderVars
  BY Zenon DEF ProbeFile
<1>3. OptsOK /\ OptsOK' /\ current \cap DevicesOf(target) # {} /\ Known /\ Kept
  BY <1>1, <1>2, KeptLook DEF BootInv, LauncherMounts, OptsOK, launcherVars
<1>4. /\ Len(s) \in Nat /\ DOMAIN s = 1 .. Len(s)
      /\ \A i \in DOMAIN s : s[i] \in {"mc0", "mc1", "ata", "usb0", "udpfs", "xfrom", "xdkwdrv"}
  <2>1. CASE target = "mc?"
    BY <2>1 DEF Units
  <2>2. CASE target # "mc?"
    BY <1>1, <2>2 DEF Units
  <2> QED BY <2>1, <2>2
<1>5. \A i \in DOMAIN s : s[i] \in Files /\ ~OnPfs(s[i]) /\ s[i] \in DOMAIN found
  BY <1>2, <1>4, Homes
<1> DEFINE g == good(found)
           I == {i \in 1 .. Len(s) : Opens(s[i], found, mounted)}
<1>6. g \in 0 .. Len(s) /\ (g > 0 => g \in I) /\ (g = 0 => I = {})
  <2>1. g = IF I # {} THEN Min(I) ELSE 0
    BY Zenon DEF SelectInSeq
  <2>2. I \in SUBSET (1 .. Len(s))
    OBVIOUS
  <2> HIDE DEF I, g
  <2> QED BY <1>4, <2>1, <2>2, FirstOf
<1>7. CASE g > 0
  <2> DEFINE f == s[g]
  <2>1. g \in DOMAIN s /\ Opens(f, found, mounted) /\ LoadFrom(f)
    BY <1>2, <1>4, <1>6, <1>7
  <2>2. f \in Files /\ ~OnPfs(f) /\ f \in DOMAIN found /\ f # "hosdmenu"
    BY <1>4, <1>5, <2>1
  <2> HIDE DEF f
  <2>3. exists'[f] = "yes" /\ DeviceOf(f) \in drivers'
    BY <1>1, <1>2, <1>3, <2>1, <2>2, SeenYes DEF Opens
  <2>4. \E o : LoadELF(o) /\ Owed(o)
    BY <1>3, <2>1, <2>2, <2>3, LoadFromOwed
  <2> QED BY <1>1, <1>3, <2>4, Leaves DEF LauncherPcs
<1>8. CASE ~(g > 0)
  <2>1. pc' = "l_next" /\ I = {}
    BY <1>2, <1>6, <1>8
  <2>2. \A i \in DOMAIN s : ~Opens(s[i], found, mounted)
    BY <1>4, <2>1
  <2>3. \A i \in DOMAIN s : exists'[s[i]] = "yes" => DeviceOf(s[i]) \notin drivers
    BY <1>2, <1>3, <1>5, <2>2, SeenYes DEF Opens
  <2>4. There(target)' => \E i \in DOMAIN s : exists'[s[i]] = "yes"
    <3>1. CASE target = "mc?"
      BY <1>1, <3>1 DEF There, Units, launcherVars
    <3>2. CASE target # "mc?"
      BY <1>1, <3>2 DEF There, Units, launcherVars
    <3> QED BY <3>1, <3>2
  <2>5. drivers = Served(current) => \A i \in DOMAIN s : DeviceOf(s[i]) \in drivers
    BY <1>1, <1>3, DriverOf, Homes DEF Units
  <2> QED BY <1>1, <1>3, <2>1, <2>3, <2>4, <2>5, Missed
<1> QED BY <1>7, <1>8

LEMMA ProbeUnitsBoot == ASSUME BootInv, ProbeUnits, UNCHANGED <<mbrVars, menu>> PROVE BootInv'
<1>1. pc = "l_probe" /\ target = "usb?" /\ UNCHANGED <<mounted, drivers, launcherVars>>
  BY DEF ProbeUnits
<1>2. PICK found \in [{"unit0", "usb0"} -> BOOLEAN] :
        /\ Look(found)
        /\ IF Opens("unit0", found, mounted) /\ Opens("usb0", found, mounted)
             THEN LoadFrom("usb0") ELSE pc' = "l_next" /\ UNCHANGED loaderVars
  BY Zenon DEF ProbeUnits
<1>3. OptsOK /\ OptsOK' /\ current \cap DevicesOf(target) # {} /\ Known /\ Kept
  BY <1>1, <1>2, KeptLook DEF BootInv, LauncherMounts, OptsOK, launcherVars
<1>4. CASE Opens("unit0", found, mounted) /\ Opens("usb0", found, mounted)
  <2>1. exists'["usb0"] = "yes" /\ DeviceOf("usb0") \in drivers'
    BY <1>1, <1>2, <1>3, <1>4, SeenYes, Homes DEF Opens
  <2>2. \E o : LoadELF(o) /\ Owed(o)
    BY <1>2, <1>3, <1>4, <2>1, LoadFromOwed, Homes
  <2> QED BY <1>1, <1>3, <2>2, Leaves DEF LauncherPcs
<1>5. CASE ~(Opens("unit0", found, mounted) /\ Opens("usb0", found, mounted))
  <2>1. exists'["unit0"] = "yes" /\ exists'["usb0"] = "yes" => "usb" \notin drivers
    BY <1>2, <1>3, <1>5, SeenYes, Homes DEF Opens
  <2>2. There(target)' => exists'["unit0"] = "yes" /\ exists'["usb0"] = "yes"
    BY <1>1 DEF There, launcherVars
  <2>3. drivers = Served(current) => "usb" \in drivers
    BY <1>1, <1>3, DriverOf
  <2> QED BY <1>1, <1>2, <1>3, <1>5, <2>1, <2>2, <2>3, Missed
<1> QED BY <1>4, <1>5

LEMMA ProbePFSBoot == ASSUME BootInv, ProbePFS, UNCHANGED <<mbrVars, menu>> PROVE BootInv'
<1> DEFINE h == Home[target]
           mounts(found) == InitPFS(h, found, TRUE)
           look(found) == IF mounts(found) THEN found ELSE Only(h, found[h])
<1>1. pc = "l_probe" /\ target \in {"pfs", "dkwdrv"} /\ UNCHANGED <<mounted, drivers, launcherVars>>
  BY DEF ProbePFS
<1>2. PICK found \in [{target, h} -> BOOLEAN] :
        /\ Look(look(found))
        /\ IF mounts(found) /\ found[target]
             THEN LoadFrom(target) ELSE pc' = "l_next" /\ UNCHANGED loaderVars
  BY Zenon DEF ProbePFS
<1>3. /\ OptsOK /\ OptsOK' /\ current \cap DevicesOf(target) # {} /\ Known /\ Kept
      /\ mounted = "none" \/ HeldByDisc
  BY <1>1, <1>2, KeptLook DEF BootInv, LauncherMounts, OptsOK, launcherVars, LauncherPcs
<1>4. /\ target \in Files /\ OnPfs(target) /\ DeviceOf(target) = "apa" /\ h \in Partitions
      /\ h \in Files \cup Partitions /\ target # "hosdmenu"
  BY <1>1, Homes DEF OnPfs
<1>5. mounts(found) <=> mounted = "none" /\ "apa" \in drivers /\ found[h]
  BY DEF InitPFS, CanMount
<1>6. exists'[h] = Answer(found[h]) /\ (mounts(found) => exists'[target] = Answer(found[target]))
  <2>1. CASE mounts(found)
    <3>1. Look(found)
      BY <1>2, <2>1
    <3> HIDE DEF h
    <3> QED BY <1>3, <1>4, <3>1, Seen
  <2>2. CASE ~mounts(found)
    <3>1. Look(Only(h, found[h]))
      BY <1>2, <2>2
    <3>2. h \in DOMAIN Only(h, found[h]) /\ Only(h, found[h])[h] = found[h]
      BY DEF Only
    <3> HIDE DEF h
    <3> QED BY <1>3, <1>4, <2>2, <3>1, <3>2, Seen
  <2> QED BY <2>1, <2>2
<1>7. CASE mounts(found) /\ found[target]
  <2>1. exists'[target] = "yes" /\ exists'[Home[target]] = "yes" /\ mounted' = "none"
        /\ DeviceOf(target) \in drivers'
    BY <1>1, <1>4, <1>5, <1>6, <1>7 DEF Answer
  <2>2. LoadFrom(target)
    BY <1>2, <1>7
  <2>3. \E o : LoadELF(o) /\ Owed(o)
    BY <1>3, <1>4, <2>1, <2>2, LoadFromOwed
  <2> QED BY <1>1, <1>3, <2>3, Leaves DEF LauncherPcs
<1>8. CASE ~(mounts(found) /\ found[target])
  <2>1. pc' = "l_next"
    BY <1>2, <1>8
  <2>2. There(target)' => exists'[h] = "yes" /\ exists'[target] # "no"
    BY <1>1 DEF There, launcherVars
  <2>3. exists'[h] = "yes" /\ exists'[target] # "no" => "apa" \notin drivers \/ HeldByDisc
    BY <1>3, <1>5, <1>6, <1>8 DEF Answer
  <2>4. drivers = Served(current) => "apa" \in drivers
    BY <1>1, <1>3, DriverOf
  <2> QED BY <1>1, <1>3, <2>1, <2>2, <2>3, <2>4, Missed
<1> QED BY <1>7, <1>8

LEMMA ProbePATINFOBoot == ASSUME BootInv, ProbePATINFO, UNCHANGED <<mbrVars, menu>> PROVE BootInv'
<1> DEFINE opt(p) == PatinfoOptions(p, IF p.boot = "pfs" THEN "pfs" ELSE "part", FALSE, p.args)
<1>1. pc = "l_probe" /\ target = "patinfo" /\ UNCHANGED <<mounted, drivers, current, hint, left, dkwdrv>>
  BY DEF ProbePATINFO
<1>2. PICK there \in BOOLEAN, p \in PartitionCnfs :
        /\ Look(Only("part", there))
        /\ IF ~there \/ "apa" \notin drivers
             THEN pc' = "l_next" /\ UNCHANGED <<loaderVars, opts, target>>
             ELSE /\ opts' = [opts EXCEPT !.dev9 = p.dev9]
                  /\ pc' = "l_launch" \/ LoadELF(opt(p))
  BY Zenon DEF ProbePATINFO
<1>3. /\ OptsOK /\ current \cap DevicesOf(target) # {} /\ Known /\ Kept
      /\ mounted = "none" \/ HeldByDisc
  BY <1>1, <1>2, KeptLook DEF BootInv, LauncherMounts, LauncherPcs
<1>4. p.boot \in {"embedded", "pfs", "mc?", "ata", "xfrom", "cdrom"} /\ p.ioprp \in BOOLEAN
      /\ p.dev9 \in {"All", "HDD", "None"} /\ p.skip \in BOOLEAN /\ p.args \in Seq(Words)
  BY LauncherAssumption, CnfTyped
<1>5. CASE ~there \/ "apa" \notin drivers
  <2>1. pc' = "l_next" /\ UNCHANGED <<opts, target>>
    BY <1>2, <1>5
  <2>2. ~there => exists'["part"] # "yes"
    <3>1. "part" \in DOMAIN Only("part", there) /\ Only("part", there)["part"] = there
      BY DEF Only
    <3> QED BY <1>2, <1>3, <3>1, SeenYes, Homes
  <2>3. There(target)' => there
    BY <1>1, <2>1, <2>2 DEF There
  <2>4. drivers = Served(current) => "APA" \notin current \/ "apa" \in drivers
    BY <1>1, <1>3, DriverOf
  <2>5. LauncherMounts'
    BY <1>1, <1>3, <2>1 DEF LauncherMounts, OptsOK, HeldByDisc, LauncherPcs
  <2>6. MissHonest'
    BY <1>1, <1>5, <2>1, <2>3, <2>4 DEF MissHonest, Served
  <2> QED BY <1>1, <1>3, <2>1, <2>5, <2>6, InLauncher DEF LauncherPcs
<1>6. CASE there /\ "apa" \in drivers
  <2>1. opts' = [opts EXCEPT !.dev9 = p.dev9] /\ (pc' = "l_launch" \/ LoadELF(opt(p)))
    BY <1>2, <1>6
  <2>2. OptsOK'
    BY <1>3, <1>4, <2>1 DEF OptsOK
  <2>3. CASE pc' = "l_launch"
    BY <1>1, <1>3, <2>2, <2>3, GoesOn DEF HeldByDisc, LauncherPcs
  <2>4. CASE LoadELF(opt(p))
    <3> DEFINE o == opt(p)
    <3>1. LoadELF(o)
      BY <2>4
    <3>2. OptionsOK(o) /\ o.file \in {"pfs", "part"} /\ ~o.checked
      BY <1>4 DEF PatinfoOptions, Options, OptionsOK
    <3> HIDE DEF o
    <3>3. Owed(o)
      BY <3>2, OwedFree
    <3> QED BY <1>1, <1>3, <2>2, <3>1, <3>3, Leaves DEF LauncherPcs
  <2> QED BY <2>1, <2>3, <2>4
<1> QED BY <1>5, <1>6

LEMMA CdromBoot ==
  ASSUME BootInv, InitCdrom \/ FindDkwdrv \/ DiscFails, UNCHANGED <<mbrVars, menu>> PROVE BootInv'
<1>1. /\ pc \in {"l_cdinit", "l_dkwdrv", "l_disc"} /\ pc' \in {"l_dkwdrv", "l_disc", "l_next"}
      /\ UNCHANGED <<opts, hint, target>>
  BY DEF InitCdrom, FindDkwdrv, DiscFails, launcherVars
<1>2. Kept
  <2>1. CASE InitCdrom \/ DiscFails
    BY <2>1, KeptSame DEF InitCdrom, DiscFails
  <2>2. CASE FindDkwdrv
    BY <2>2, KeptLook DEF FindDkwdrv
  <2> QED BY <2>1, <2>2
<1>3. mounted' = "none" \/ mounted' = mounted \/ (mounted' = "sysconf" /\ hint = "APA")
  <2>1. CASE InitCdrom
    <3>1. \E D : \E ok \in BOOLEAN : LoadModules(D, ok)
      BY <2>1, Zenon DEF InitCdrom
    <3> QED BY <3>1, Loads
  <2>2. CASE FindDkwdrv
    <3>1. PICK conf \in BOOLEAN :
            mounted' = IF hint # "APA" THEN mounted
                       ELSE IF "apa" \in drivers /\ conf THEN "sysconf" ELSE "none"
      BY <2>2, ZenonT(60) DEF FindDkwdrv
    <3> QED BY <3>1
  <2>3. CASE DiscFails
    BY <2>3 DEF DiscFails
  <2> QED BY <2>1, <2>2, <2>3
<1>4. /\ OptsOK /\ target \in {"none", "cdrom"} /\ (mounted = "none" \/ HeldByDisc)
  BY <1>1 DEF BootInv, LauncherMounts, LauncherPcs
<1>5. OptsOK' /\ (mounted' = "none" \/ HeldByDisc')
  BY <1>1, <1>3, <1>4 DEF OptsOK, HeldByDisc
<1>6. CASE pc' = "l_next"
  BY <1>1, <1>2, <1>4, <1>5, <1>6, GoesOn DEF LauncherPcs
<1>7. CASE pc' # "l_next"
  <2>1. LauncherMounts' /\ MissHonest'
    BY <1>1, <1>4, <1>5, <1>7 DEF LauncherMounts, MissHonest
  <2> QED BY <1>1, <1>2, <2>1, InLauncher DEF LauncherPcs
<1> QED BY <1>6, <1>7

LEMMA DiscBoot ==
  ASSUME BootInv, StartPS1Disc \/ StartPS2Disc, UNCHANGED <<mbrVars, menu>> PROVE BootInv'
<1> DEFINE v == [Options("ps1vn", TRUE) EXCEPT !.elf = TRUE]
           d == [Options("disc", TRUE) EXCEPT
                   !.gsm = opts'.gsm, !.skip = opts.skip, !.dev9 = opts.dev9]
<1>1. /\ pc = "l_disc" /\ mounted' = Unmounted /\ hint' = hint
      /\ opts' \in {opts, [opts EXCEPT !.skip = TRUE], [opts EXCEPT !.gsm = TRUE]}
  BY DEF StartPS1Disc, StartPS2Disc
<1>2. pc' \in {"l_launch", "rom"} \/ LoadELF(v) \/ LoadELF(d)
  BY Zenon DEF StartPS1Disc, StartPS2Disc
<1>3. OptsOK /\ (mounted = "none" \/ HeldByDisc)
  BY <1>1 DEF BootInv, LauncherMounts, LauncherPcs
<1>4. mounted' = "none"
  BY <1>1, <1>3 DEF Unmounted, HeldByDisc
<1>5. OptsOK'
  <2>1. CASE opts' = opts
    BY <1>3, <2>1 DEF OptsOK
  <2>2. CASE opts' = [opts EXCEPT !.skip = TRUE]
    BY <1>3, <2>2 DEF OptsOK
  <2>3. CASE opts' = [opts EXCEPT !.gsm = TRUE]
    BY <1>3, <2>3 DEF OptsOK
  <2> QED BY <1>1, <2>1, <2>2, <2>3
<1>6. Kept
  BY KeptSame DEF StartPS1Disc, StartPS2Disc
<1>7. CASE pc' \in {"l_launch", "rom"}
  BY <1>1, <1>4, <1>5, <1>6, <1>7, GoesOn DEF LauncherPcs
<1>8. OptionsOK(v) /\ v.file = "ps1vn" /\ OptionsOK(d) /\ d.file = "disc"
  <2>1. OptionsOK(v) /\ v.file = "ps1vn"
    BY DEF Options, OptionsOK
  <2>2. OptionsOK(d) /\ d.file = "disc"
    BY <1>3, <1>5 DEF OptsOK, Options, OptionsOK
  <2> QED BY <2>1, <2>2
<1> HIDE DEF v, d
<1>9. Owed(v) /\ Owed(d)
  BY <1>8, OwedFree, Homes
<1> QED BY <1>1, <1>2, <1>5, <1>6, <1>7, <1>9, Leaves DEF LauncherPcs

LEMMA BootOfLauncher == ASSUME BootInv, LauncherNext, UNCHANGED <<mbrVars, menu>> PROVE BootInv'
BY MainPathBoot, OpenOsdmBoot, LoadDiskBoot, OpenOsdmHddBoot, QuickbootBoot, NextTargetBoot,
   LaunchDeviceBoot, LaunchOtherBoot, ProbeFileBoot, ProbeUnitsBoot, ProbePFSBoot, ProbePATINFOBoot,
   CdromBoot, DiscBoot DEF LauncherNext

LEMMA BootStep == ASSUME BootInv, [Next]_vars PROVE BootInv'
<1>1. CASE MbrNext /\ UNCHANGED <<launcherVars, menu, gsmVars>>
  BY <1>1, BootOfMbr
<1>2. CASE LauncherNext /\ UNCHANGED <<mbrVars, menu, gsmVars>>
  BY <1>2, BootOfLauncher
<1>3. CASE LoaderNext /\ UNCHANGED <<mbrVars, launcherVars, menu, gsmVars>>
  BY <1>3, BootOfLoaderMount, BootOfLoaderStart DEF LoaderNext
<1>4. CASE MenuNext /\ UNCHANGED <<asked, handed, mbrVars, gsmVars>>
  BY <1>4, BootOfMenu
<1>5. CASE EgsmNext /\ UNCHANGED <<loaderVars, mbrVars, launcherVars, menu>>
  BY <1>5, BootOfEgsm
<1> QED BY <1>1, <1>2, <1>3, <1>4, <1>5, BootOfStartMenu, BootOfStartLauncher, BootOfStartTitle,
           BootStutter DEF Next

-----------------------------------------------------------------------------

\* The step of the three theorems.
LEMMA BootInvStep == BootInv /\ [Next]_vars => BootInv'
BY BootStep

(* The loader reads from its arguments the options loadELF() was given     *)
(* (loader.c:57-126, the loader's loader.c:121-157), and a file that was   *)
(* found before is mounted and opened again: the console does not end up   *)
(* dead, but for IOPRP images and the drivers a PSX loses.                 *)
THEOREM HandOverAlways == Spec => []HandOver
<1>1. BootInv => HandOver
  BY DEF BootInv
<1> QED BY <1>1, BootInit, BootInvStep, PTL DEF Spec

(* execOSD() of the MBR ends in OSDSYS, and HOSDMenu in its recovery       *)
(* program, only when what they should have started is not there or has no *)
(* driver: never for a mount or for drivers that another program left, a   *)
(* PSX after a failed startXOSD() excepted (mbr/src/handlers.c,            *)
(* patcher/src/main.c:106-144).                                            *)
THEOREM FallbackHonestAlways == Spec => []FallbackHonest
<1>1. BootInv => FallbackHonest
  BY DEF BootInv
<1> QED BY <1>1, BootInit, BootInvStep, PTL DEF Spec

(* launchPath() gives a target up only when its file is not there, or for  *)
(* the three reasons MissHonest names: drivers that did not load behind a  *)
(* currentDevice that says otherwise, __sysconf left on pfs0: by a failed  *)
(* disc, the drivers of an ata path taken for those of a PATINFO path.     *)
THEOREM MissHonestAlways == Spec => []MissHonest
<1>1. BootInv => MissHonest
  BY DEF BootInv
<1> QED BY <1>1, BootInit, BootInvStep, PTL DEF Spec

-----------------------------------------------------------------------------
(* What a picture is scaled to *)

\* A mode as the handler keeps it, and modes that show the same.
ModeFields == {"mode", "interlace", "frame", "vck", "fb", "dp", "xc", "yc"}
IsMode(m) ==
  /\ DOMAIN m = ModeFields /\ m.interlace \in BOOLEAN /\ m.frame \in BOOLEAN
SameMode(n, m) == n.mode = m.mode /\ n.interlace = m.interlace /\ n.frame = m.frame

\* Where the centre of a mode is, as the hardware counts.
CentreX(mode) == (AreaOf[mode].xoff + AreaOf[mode].w \div 2) * AreaOf[mode].vck
CentreY(m) ==
  LET a == AreaOf[m.mode] IN
  IF m.mode \in {"ntsc", "pal"} /\ ~m.interlace THEN a.yoff \div 2 + a.h \div 4
                                                ELSE a.yoff + a.h \div 2

LEMMA Areas ==
  /\ DOMAIN AreaOf = {"ntsc", "pal", "480p", "576p", "1080i"}
  /\ AreaOf["ntsc"] = Area(720, 480, 123, 34, 4, 2) /\ AreaOf["pal"] = Area(720, 576, 130, 40, 4, 2)
  /\ AreaOf["480p"] = Area(720, 480, 123, 34, 2, 2) /\ AreaOf["576p"] = Area(720, 576, 130, 40, 2, 2)
  /\ AreaOf["1080i"] = Area(1920, 1080, 236, 38, 1, 4)
BY DEF AreaOf

\* update_scaling_center() finds the lines that the hardware shows.
LEMMA CentreIs ==
  ASSUME NEW m, IsMode(m), m.mode \in {"ntsc", "pal", "480p", "576p", "1080i"},
         m.mode = "1080i" => m.interlace
  PROVE  LET n == ScalingCenter(m) IN
         /\ IsMode(n) /\ SameMode(n, m)
         /\ n.vck = AreaOf[m.mode].vck /\ n.fb = FrameLines(m) /\ n.dp = PictureLines(m)
         /\ n.xc = CentreX(m.mode) /\ n.yc = CentreY(m)
<1> DEFINE a     == AreaOf[m.mode]
           low   == m.mode \in {"ntsc", "pal"} /\ ~m.interlace
           Low(n)  == IF low THEN n \div 2 ELSE n
           frame == m.interlace /\ m.frame
           fb == Low(IF frame THEN a.lines \div 2 ELSE a.lines)
           dp == Low(a.lines)
           xc == (a.xoff + a.w \div 2) * a.vck
           yc == Low(a.yoff) + Low(a.h) \div 2
           vck == a.vck
           n == ScalingCenter(m)
<1>1. n = [m EXCEPT !.vck = vck, !.dp = dp, !.fb = fb, !.xc = xc, !.yc = yc]
  BY Areas DEF ScalingCenter
<1>2. vck = AreaOf[m.mode].vck /\ fb = FrameLines(m) /\ dp = PictureLines(m)
      /\ xc = CentreX(m.mode) /\ yc = CentreY(m)
  <2>1. CASE m.mode = "ntsc"
    BY <2>1, Areas DEF IsMode, Area, FrameLines, PictureLines, CentreX, CentreY
  <2>2. CASE m.mode = "pal"
    BY <2>2, Areas DEF IsMode, Area, FrameLines, PictureLines, CentreX, CentreY
  <2>3. CASE m.mode = "480p"
    BY <2>3, Areas DEF IsMode, Area, FrameLines, PictureLines, CentreX, CentreY
  <2>4. CASE m.mode = "576p"
    BY <2>4, Areas DEF IsMode, Area, FrameLines, PictureLines, CentreX, CentreY
  <2>5. CASE m.mode = "1080i"
    BY <2>5, Areas DEF IsMode, Area, FrameLines, PictureLines, CentreX, CentreY
  <2> QED BY <2>1, <2>2, <2>3, <2>4, <2>5
<1> HIDE DEF n, vck, fb, dp, xc, yc
<1>3. /\ IsMode(n) /\ SameMode(n, m) /\ n.vck = vck /\ n.fb = fb /\ n.dp = dp /\ n.xc = xc /\ n.yc = yc
  BY <1>1 DEF IsMode, SameMode, ModeFields
<1> QED BY <1>2, <1>3 DEF n

StateFields == {"flags", "game", "out", "last", "wide", "tall", "high", "vckDiv", "count", "prev"}

\* How much wider pixels are made.
Wide(v) == IF v = "1080ix2" THEN 2 ELSE IF v = "1080ix3" THEN 3 ELSE 1

\* The forced mode fits the title's, whatever the title writes to SMODE2.
Fits(s) ==
  LET g == s.game  o == s.out  v == s.flags.video IN
  /\ IsMode(g) /\ IsMode(o) /\ g.mode \in {"ntsc", "pal"}
  /\ \/ v = "fp1" /\ o.mode = g.mode
     \/ v = "fp2" /\ o.mode = (IF g.mode = "ntsc" THEN "480p" ELSE "576p") /\ ~o.interlace
     \/ v \in {"1080ix1", "1080ix2", "1080ix3"} /\ o.mode = "1080i" /\ o.interlace
  /\ v # "fp2" /\ g.interlace => o.frame = g.frame

\* The factors are those of the two modes.
Scaled(s) ==
  LET g == s.game  o == s.out  v == s.flags.video IN
  /\ s.wide = Wide(v) /\ s.vckDiv = 4 \div AreaOf[o.mode].vck
  /\ s.tall = Ratio(FrameLines(o) \div Part(v), FrameLines(g))
  /\ s.high = Ratio(PictureLines(o) \div Part(v), PictureLines(g))
  /\ o.xc = CentreX(o.mode) /\ o.yc = CentreY(o)

LEMMA SameLines ==
  ASSUME NEW n, NEW m, SameMode(n, m)
  PROVE  FrameLines(n) = FrameLines(m) /\ PictureLines(n) = PictureLines(m) /\ CentreY(n) = CentreY(m)
BY DEF SameMode, FrameLines, PictureLines, CentreY

LEMMA LinesAre ==
  ASSUME NEW s, Fits(s)
  PROVE  LET g == s.game  o == s.out  v == s.flags.video IN
         /\ FrameLines(g) \in {1, 2} /\ PictureLines(g) \in {1, 2}
         /\ FrameLines(o) \in {1, 2, 4} /\ PictureLines(o) \in {1, 2, 4}
         /\ v = "1080ix1" => FrameLines(o) \in {2, 4} /\ PictureLines(o) = 4
<1> DEFINE g == s.game
           o == s.out
           v == s.flags.video
<1>1. /\ g.mode \in {"ntsc", "pal"} /\ o.mode \in {"ntsc", "pal", "480p", "576p", "1080i"}
      /\ v = "1080ix1" => o.mode = "1080i"
  BY DEF Fits
<1> HIDE DEF g, o, v
<1>2. FrameLines(g) \in {1, 2} /\ PictureLines(g) \in {1, 2}
  BY <1>1 DEF FrameLines, PictureLines
<1>3. FrameLines(o) \in {1, 2, 4} /\ PictureLines(o) \in {1, 2, 4}
  BY <1>1 DEF FrameLines, PictureLines
<1>4. o.mode = "1080i" => FrameLines(o) \in {2, 4} /\ PictureLines(o) = 4
  BY DEF FrameLines, PictureLines
<1> QED BY <1>1, <1>2, <1>3, <1>4 DEF g, o, v

\* update_scaling() finds the factors, and never divides by zero where the
\* modes fit.
LEMMA ScalingIs ==
  ASSUME NEW s, DOMAIN s = StateFields, Fits(s)
  PROVE  LET t == UpdateScaling(s) IN
         /\ DOMAIN t = StateFields /\ t.flags = s.flags /\ t.last = s.last
         /\ SameMode(t.game, s.game) /\ SameMode(t.out, s.out)
         /\ Fits(t) /\ Scaled(t) /\ Divides(t)
<1> DEFINE g    == s.game
           o    == s.out
           v    == s.flags.video
           game == ScalingCenter(g)
           mid  == ScalingCenter(o)
           out  == IF v = "1080ix1" THEN Half(mid) ELSE mid
           wide == IF v = "1080ix2" THEN 2 ELSE IF v = "1080ix3" THEN 3 ELSE 1
           tall == Ratio(out.fb, game.fb)
           high == Ratio(out.dp, game.dp)
           vck  == game.vck \div out.vck
           t    == UpdateScaling(s)
<1>1. t = IF 0 \in {out.fb, out.dp} THEN [s EXCEPT !.game = game, !.out = out]
          ELSE [s EXCEPT !.game = game, !.out = out, !.wide = wide, !.tall = tall, !.high = high,
                         !.vckDiv = vck]
  BY Zenon DEF UpdateScaling
<1>2. /\ IsMode(g) /\ IsMode(o) /\ g.mode \in {"ntsc", "pal"}
      /\ o.mode \in {"ntsc", "pal", "480p", "576p", "1080i"} /\ (o.mode = "1080i" => o.interlace)
  BY DEF Fits
<1>3. /\ FrameLines(g) \in {1, 2} /\ PictureLines(g) \in {1, 2}
      /\ FrameLines(o) \in {1, 2, 4} /\ PictureLines(o) \in {1, 2, 4}
      /\ v = "1080ix1" => FrameLines(o) \in {2, 4} /\ PictureLines(o) = 4
  BY LinesAre
<1> HIDE DEF t, g, o
<1>4. /\ IsMode(game) /\ SameMode(game, g) /\ game.vck = 4 /\ game.fb = FrameLines(g)
      /\ game.dp = PictureLines(g)
  <2>1. AreaOf[g.mode].vck = 4 /\ g.mode # "1080i"
    BY <1>2, Areas DEF Area
  <2> QED BY <1>2, <2>1, CentreIs
<1>5. /\ IsMode(mid) /\ SameMode(mid, o) /\ mid.vck = AreaOf[o.mode].vck
      /\ mid.fb = FrameLines(o) /\ mid.dp = PictureLines(o)
      /\ mid.xc = CentreX(o.mode) /\ mid.yc = CentreY(o)
  BY <1>2, CentreIs
<1> HIDE DEF game, mid
<1>6. /\ IsMode(out) /\ SameMode(out, o) /\ out.vck = AreaOf[o.mode].vck
      /\ out.fb = FrameLines(o) \div Part(v) /\ out.dp = PictureLines(o) \div Part(v)
      /\ out.xc = CentreX(o.mode) /\ out.yc = CentreY(o)
  <2>1. CASE v = "1080ix1"
    BY <1>5, <2>1 DEF Half, IsMode, SameMode, ModeFields, Part
  <2>2. CASE v # "1080ix1"
    BY <1>3, <1>5, <2>2 DEF Part
  <2> QED BY <2>1, <2>2
<1> HIDE DEF out
<1>7. out.fb # 0 /\ out.dp # 0
  BY <1>3, <1>6 DEF Part
<1> HIDE DEF wide, tall, high, vck
<1>8. t = [s EXCEPT !.game = game, !.out = out, !.wide = wide, !.tall = tall, !.high = high, !.vckDiv = vck]
  BY <1>1, <1>7
<1>9. /\ DOMAIN t = StateFields /\ t.flags = s.flags /\ t.last = s.last /\ t.game = game /\ t.out = out
      /\ t.wide = wide /\ t.tall = tall /\ t.high = high /\ t.vckDiv = vck
  BY <1>8 DEF StateFields
<1>10. Divides(t)
  BY <1>7, <1>9 DEF Divides
<1>11. Fits(t)
  BY <1>4, <1>6, <1>9 DEF Fits, SameMode, g, o, v
<1>12. Scaled(t)
  <2>1. FrameLines(t.game) = FrameLines(g) /\ PictureLines(t.game) = PictureLines(g)
    BY <1>4, <1>9, SameLines
  <2>2. FrameLines(t.out) = FrameLines(o) /\ PictureLines(t.out) = PictureLines(o)
        /\ CentreY(t.out) = CentreY(o) /\ t.out.mode = o.mode
    BY <1>6, <1>9, SameLines DEF SameMode
  <2>3. t.wide = Wide(v) /\ t.vckDiv = 4 \div AreaOf[o.mode].vck
    BY <1>4, <1>6, <1>9 DEF wide, vck, Wide
  <2>4. t.tall = Ratio(FrameLines(o) \div Part(v), FrameLines(g))
        /\ t.high = Ratio(PictureLines(o) \div Part(v), PictureLines(g))
    BY <1>4, <1>6, <1>9 DEF tall, high
  <2>5. t.flags.video = v
    BY <1>9
  <2> HIDE DEF v
  <2> QED BY <1>6, <1>9, <2>1, <2>2, <2>3, <2>4, <2>5 DEF Scaled
<1> QED BY <1>4, <1>6, <1>9, <1>10, <1>11, <1>12 DEF g, o, t

\* Sizes that are those of a register, a picture of whole pixels, and one that
\* lies inside the visible area of the title's mode and can be magnified.
SizeOf(p) ==
  /\ p.magh \in Nat /\ p.magv \in Nat /\ p.dw \in Nat /\ p.dh \in Nat
  /\ p.magh <= 16 /\ p.magv > 0 /\ p.dw > 0 /\ p.dh > 0
WholePicture(p) == p.magh >= 4 /\ p.dw % p.magh = 0 /\ p.dh % 2 = 0
Inside(s, p) ==
  /\ p.dw <= 2880 /\ 2 * p.dh <= AreaOf[s.game.mode].h * PictureLines(s.game)
  /\ p.magv * FrameLines(s.out) <= 4 * FrameLines(s.game) * Part(s.flags.video)

\* What mod_DISPLAY() computes, before the fields of the register.
Computed(s, r) ==
  LET magh == (r.magh * s.wide) \div s.vckDiv
      dw   == (r.dw * magh) \div r.magh
      dh   == (r.dh * s.high.mul) \div s.high.div
  IN [magh |-> magh, magv |-> (r.magv * s.tall.mul) \div s.tall.div, dw |-> dw, dh |-> dh,
      dx |-> s.out.xc - (dw \div 2), dy |-> s.out.yc - (dh \div 2)]

\* The framebuffer never shows more lines in the title's mode than in the
\* forced one, so magnifying it takes no lines away.
LEMMA FrameGrows ==
  ASSUME NEW s, Fits(s), s.out.interlace = Forced(s.game, s.flags).interlace
  PROVE  FrameLines(s.game) <= FrameLines(s.out) \div Part(s.flags.video)
<1> DEFINE g == s.game
           o == s.out
           v == s.flags.video
<1>1. /\ g.mode \in {"ntsc", "pal"} /\ g.interlace \in BOOLEAN /\ g.frame \in BOOLEAN
      /\ v # "fp2" /\ g.interlace => o.frame = g.frame
      /\ o.frame \in BOOLEAN /\ o.interlace \in BOOLEAN
  BY DEF Fits, IsMode
<1>2. FrameLines(g) = IF g.interlace /\ ~g.frame THEN 2 ELSE 1
  BY <1>1 DEF FrameLines
<1>3. CASE v = "fp1"
  <2>1. o.mode = g.mode
    BY <1>3 DEF Fits
  <2>2. g.interlace /\ ~g.frame => o.interlace
    BY <1>1, <1>3 DEF Forced
  <2>3. FrameLines(o) = IF o.interlace /\ ~o.frame THEN 2 ELSE 1
    BY <1>1, <2>1 DEF FrameLines
  <2>4. FrameLines(o) \div Part(v) = FrameLines(o)
    BY <1>3, <2>3 DEF Part
  <2> QED BY <1>1, <1>2, <1>3, <2>2, <2>3, <2>4
<1>4. CASE v = "fp2"
  <2>1. FrameLines(o) = 2 /\ Part(v) = 1
    BY <1>4 DEF Fits, FrameLines, Part
  <2> QED BY <1>2, <2>1
<1>5. CASE v \in {"1080ix1", "1080ix2", "1080ix3"}
  <2>1. FrameLines(o) = IF o.frame THEN 2 ELSE 4
    BY <1>5 DEF Fits, FrameLines
  <2>2. Part(v) = (IF v = "1080ix1" THEN 2 ELSE 1)
    BY DEF Part
  <2> QED BY <1>1, <1>2, <1>5, <2>1, <2>2
<1> QED BY <1>3, <1>4, <1>5 DEF Fits

\* It keeps the proportions.
LEMMA ComputedIs ==
  ASSUME NEW s, Fits(s), Scaled(s), s.out.interlace = Forced(s.game, s.flags).interlace,
         NEW r, SizeOf(r), WholePicture(r)
  PROVE  LET d    == Computed(s, r)
             part == Part(s.flags.video)
         IN  /\ d.magv * FrameLines(s.game) * part = r.magv * FrameLines(s.out)
             /\ d.dh * PictureLines(s.game) * part = r.dh * PictureLines(s.out)
             /\ d.dw * r.magh = r.dw * d.magh /\ d.magh > 0
             /\ d.dx + d.dw \div 2 = CentreX(s.out.mode)
             /\ d.dy + d.dh \div 2 = CentreY(s.out)
             /\ d.magh \in Nat /\ d.magv \in Int /\ d.dw \in Int /\ d.dh \in Int /\ d.dw > 0
             /\ d.magh * s.vckDiv <= r.magh * s.wide /\ d.dw * s.vckDiv <= r.dw * s.wide
<1> DEFINE g == s.game
           o == s.out
           v == s.flags.video
           d == Computed(s, r)
           gf == FrameLines(g)
           gd == PictureLines(g)
           of == FrameLines(o)
           od == PictureLines(o)
           part == Part(v)
           qf == of \div part
           qd == od \div part
<1>1. /\ gf \in {1, 2} /\ gd \in {1, 2} /\ of \in {1, 2, 4} /\ od \in {1, 2, 4}
      /\ v = "1080ix1" => of \in {2, 4} /\ od = 4
  BY LinesAre
<1>2. /\ d.magv = (r.magv * s.tall.mul) \div s.tall.div
      /\ d.dh = (r.dh * s.high.mul) \div s.high.div
      /\ d.magh = (r.magh * s.wide) \div s.vckDiv
      /\ d.dw = (r.dw * d.magh) \div r.magh
      /\ d.dx = o.xc - (d.dw \div 2) /\ d.dy = o.yc - (d.dh \div 2)
  BY DEF Computed
<1>3. /\ s.tall = Ratio(qf, gf) /\ s.high = Ratio(qd, gd) /\ s.wide = Wide(v)
      /\ s.vckDiv = 4 \div AreaOf[o.mode].vck /\ o.xc = CentreX(o.mode) /\ o.yc = CentreY(o)
  BY DEF Scaled
<1>4. gf <= qf
  BY FrameGrows
<1>5. /\ s.vckDiv \in {1, 2, 4}
  <2>1. o.mode \in {"ntsc", "pal", "480p", "576p", "1080i"}
    BY DEF Fits
  <2>2. AreaOf[o.mode].vck \in {4, 2, 1}
    BY <2>1, Areas DEF Area
  <2> QED BY <1>3, <2>2
<1>6. CentreX(o.mode) \in Int /\ CentreY(o) \in Int
  <2>1. o.mode \in {"ntsc", "pal", "480p", "576p", "1080i"}
    BY DEF Fits
  <2> HIDE DEF o
  <2>2. CASE o.mode \in {"ntsc", "480p"}
    BY <2>2, Areas DEF Area, CentreX, CentreY
  <2>3. CASE o.mode \in {"pal", "576p"}
    BY <2>3, Areas DEF Area, CentreX, CentreY
  <2>4. CASE o.mode = "1080i"
    BY <2>4, Areas DEF Area, CentreX, CentreY
  <2> QED BY <2>1, <2>2, <2>3, <2>4
<1>7. part \in {1, 2} /\ qf \in {1, 2, 4} /\ qd \in {1, 2, 4} /\ qf * part = of /\ qd * part = od
  <2>1. part = IF v = "1080ix1" THEN 2 ELSE 1
    BY DEF Part
  <2> HIDE DEF part, of, od, v
  <2>2. CASE v = "1080ix1"
    BY <1>1, <2>1, <2>2
  <2>3. CASE v # "1080ix1"
    BY <1>1, <2>1, <2>3
  <2> QED BY <2>2, <2>3
<1>8. Wide(v) \in {1, 2, 3}
  BY DEF Wide
<1>9. r.magh \in Nat /\ r.magv \in Nat /\ r.dw \in Nat /\ r.dh \in Nat /\ r.magh >= 4
      /\ r.dw % r.magh = 0 /\ r.dh % 2 = 0 /\ r.dw > 0
  BY DEF SizeOf, WholePicture
<1> HIDE DEF d, gf, gd, of, od, part, qf, qd, g, o, v
<1>10. d.magv * gf * part = r.magv * of /\ d.magv \in Int
  <2>1. s.tall.div = 1 /\ s.tall.mul = qf \div gf
    BY <1>1, <1>3, <1>4, <1>7 DEF Ratio
  <2> DEFINE k == r.magv
  <2>2. k \in Nat
    BY <1>9
  <2>3. d.magv = (k * s.tall.mul) \div s.tall.div
    BY <1>2
  <2> HIDE DEF k
  <2>4. d.magv * gf * part = k * of /\ d.magv \in Int
    <3>1. CASE gf = 1 /\ qf = 1  BY <1>7, <2>1, <2>2, <2>3, <3>1
    <3>2. CASE gf = 1 /\ qf = 2  BY <1>7, <2>1, <2>2, <2>3, <3>2
    <3>3. CASE gf = 1 /\ qf = 4  BY <1>7, <2>1, <2>2, <2>3, <3>3
    <3>4. CASE gf = 2 /\ qf = 2  BY <1>7, <2>1, <2>2, <2>3, <3>4
    <3>5. CASE gf = 2 /\ qf = 4  BY <1>7, <2>1, <2>2, <2>3, <3>5
    <3> QED BY <1>1, <1>4, <1>7, <3>1, <3>2, <3>3, <3>4, <3>5
  <2> QED BY <2>4 DEF k
<1>11. d.dh * gd * part = r.dh * od /\ d.dh \in Int
  <2>1. s.high = IF gd > qd THEN [mul |-> 1, div |-> gd \div qd] ELSE [mul |-> qd \div gd, div |-> 1]
    BY <1>3 DEF Ratio
  <2> DEFINE k == r.dh
  <2>2. k \in Nat /\ k % 2 = 0
    BY <1>9
  <2>3. d.dh = (k * s.high.mul) \div s.high.div
    BY <1>2
  <2> HIDE DEF k
  <2>4. d.dh * gd * part = k * od /\ d.dh \in Int
    <3>1. CASE gd = 1 /\ qd = 1  BY <1>7, <2>1, <2>2, <2>3, <3>1
    <3>2. CASE gd = 1 /\ qd = 2  BY <1>7, <2>1, <2>2, <2>3, <3>2
    <3>3. CASE gd = 1 /\ qd = 4  BY <1>7, <2>1, <2>2, <2>3, <3>3
    <3>4. CASE gd = 2 /\ qd = 1  BY <1>7, <2>1, <2>2, <2>3, <3>4
    <3>5. CASE gd = 2 /\ qd = 2  BY <1>7, <2>1, <2>2, <2>3, <3>5
    <3>6. CASE gd = 2 /\ qd = 4  BY <1>7, <2>1, <2>2, <2>3, <3>6
    <3> QED BY <1>1, <1>7, <3>1, <3>2, <3>3, <3>4, <3>5, <3>6
  <2> QED BY <2>4 DEF k
<1>12. d.magh \in Nat /\ d.magh > 0 /\ d.magh * s.vckDiv <= r.magh * s.wide
  <2> DEFINE k == r.magh
             w == s.wide
  <2>1. k \in Nat /\ k >= 4 /\ w \in {1, 2, 3} /\ d.magh = (k * w) \div s.vckDiv
    BY <1>2, <1>3, <1>8, <1>9
  <2> HIDE DEF k, w
  <2>2. k * w \in Nat /\ k * w >= 4
    BY <2>1
  <2>3. d.magh \in Nat /\ d.magh > 0 /\ d.magh * s.vckDiv <= k * w
    <3> DEFINE p == k * w
    <3>1. p \in Nat /\ p >= 4 /\ d.magh = p \div s.vckDiv
      BY <2>1, <2>2
    <3> HIDE DEF p
    <3>2. d.magh \in Nat /\ d.magh > 0 /\ d.magh * s.vckDiv <= p
      <4>1. CASE s.vckDiv = 1  BY <3>1, <4>1
      <4>2. CASE s.vckDiv = 2  BY <3>1, <4>2
      <4>3. CASE s.vckDiv = 4  BY <3>1, <4>3
      <4> QED BY <1>5, <4>1, <4>2, <4>3
    <3> QED BY <3>2 DEF p
  <2> QED BY <2>3 DEF k, w
<1>13. /\ d.dw * r.magh = r.dw * d.magh /\ d.dw \in Int /\ d.dw > 0
       /\ d.dw * s.vckDiv <= r.dw * s.wide
  <2> DEFINE m == r.magh
             k == r.dw \div m
             n == d.magh
  <2>1. r.dw = m * k + (r.dw % m) /\ k \in Int /\ m \in Nat /\ m > 0
    <3>1. r.dw \in Int /\ m \in Nat /\ m > 0
      BY <1>9
    <3> HIDE DEF m
    <3> QED BY <3>1, DivMod
  <2>2. n \in Nat /\ r.dw \in Nat /\ r.dw % m = 0 /\ d.dw = (r.dw * n) \div m
    BY <1>2, <1>9, <1>12
  <2> HIDE DEF m, k, n
  <2>3. m * k \in Int
    BY <2>1, Z3
  <2>4. r.dw = m * k
    BY <2>1, <2>2, <2>3
  <2>5. r.dw * n = m * (k * n) /\ k * n \in Int
    <3>1. k * n \in Int
      BY <2>1, <2>2, Z3
    <3>2. (m * k) * n = m * (k * n)
      BY <2>1, <2>2, Z3
    <3> QED BY <2>4, <3>1, <3>2
  <2>6. d.dw = k * n
    BY <2>1, <2>2, <2>5, DivIs
  <2>7. d.dw * m = (m * k) * n
    BY <2>1, <2>2, <2>6, Z3
  <2>8. d.dw * m = r.dw * n /\ d.dw \in Int
    BY <2>4, <2>5, <2>6, <2>7
  <2> DEFINE e == s.vckDiv
             w == s.wide
  <2>9. e \in Nat /\ w \in Nat /\ n * e <= m * w /\ n > 0 /\ m > 0 /\ r.dw > 0
    BY <1>3, <1>5, <1>8, <1>9, <1>12 DEF m, n
  <2> HIDE DEF e, w
  <2>10. k > 0
    BY <2>1, <2>2, <2>4, <2>9, Z3
  <2>11. d.dw > 0
    BY <2>1, <2>2, <2>6, <2>9, <2>10, Z3
  <2>12. k * (n * e) <= k * (m * w)
    <3> DEFINE x == n * e
               y == m * w
    <3>1. x \in Int /\ y \in Int /\ x <= y
      BY <2>1, <2>2, <2>9, Z3
    <3> HIDE DEF x, y
    <3> QED BY <2>1, <2>10, <3>1, Z3 DEF x, y
  <2>13. d.dw * e = k * (n * e) /\ r.dw * w = k * (m * w)
    <3>1. (k * n) * e = k * (n * e)
      BY <2>1, <2>2, <2>9, Z3
    <3>2. (m * k) * w = k * (m * w)
      BY <2>1, <2>2, <2>9, Z3
    <3> QED BY <2>4, <2>6, <3>1, <3>2
  <2> QED BY <2>8, <2>11, <2>12, <2>13 DEF m, n, e, w
<1>14. d.dx + d.dw \div 2 = CentreX(o.mode) /\ d.dy + d.dh \div 2 = CentreY(o)
  <2>1. d.dw \div 2 \in Int /\ d.dh \div 2 \in Int
    BY <1>11, <1>13
  <2> QED BY <1>2, <1>3, <1>6, <2>1
<1> QED BY <1>10, <1>11, <1>12, <1>13, <1>14 DEF d, gf, gd, of, od, part, g, o, v

\* A picture that suits the title's mode lies inside the forced one.
LEMMA InRange ==
  ASSUME NEW s, Fits(s), Scaled(s), s.out.interlace = Forced(s.game, s.flags).interlace,
         NEW r, SizeOf(r), WholePicture(r), Inside(s, r)
  PROVE  LET d == Computed(s, r) IN
         /\ d.magh \in Int /\ d.magv \in Int /\ d.dw \in Int /\ d.dh \in Int
         /\ d.dx \in Int /\ d.dy \in Int
         /\ 0 < d.magh /\ d.magh <= 16 /\ 0 < d.magv /\ d.magv <= 4
         /\ 0 < d.dw /\ d.dw <= 4096 /\ 0 < d.dh /\ d.dh <= 2048
         /\ 0 <= d.dx /\ d.dx < 4096 /\ 0 <= d.dy /\ d.dy < 2048
<1> DEFINE g == s.game
           o == s.out
           v == s.flags.video
           d == Computed(s, r)
           gf == FrameLines(g)
           gd == PictureLines(g)
           of == FrameLines(o)
           od == PictureLines(o)
           part == Part(v)
           h == AreaOf[g.mode].h
           x == CentreX(o.mode)
           y == CentreY(o)
<1>1. gf \in {1, 2} /\ gd \in {1, 2} /\ of \in {1, 2, 4} /\ od \in {1, 2, 4}
  BY LinesAre
<1>2. /\ d.magv * gf * part = r.magv * of
      /\ d.dh * gd * part = r.dh * od
      /\ d.magh > 0 /\ d.dx + d.dw \div 2 = x /\ d.dy + d.dh \div 2 = y
      /\ d.magh \in Nat /\ d.magv \in Int /\ d.dw \in Int /\ d.dh \in Int /\ d.dw > 0
      /\ d.magh * s.vckDiv <= r.magh * s.wide /\ d.dw * s.vckDiv <= r.dw * s.wide
  BY ComputedIs
<1>3. d.dx = o.xc - (d.dw \div 2) /\ d.dy = o.yc - (d.dh \div 2) /\ o.xc = x /\ o.yc = y
  BY DEF Computed, Scaled
<1>4. /\ r.magh \in Nat /\ r.magv \in Nat /\ r.dw \in Nat /\ r.dh \in Nat
      /\ r.magh <= 16 /\ r.magv > 0 /\ r.dh > 0 /\ r.dw <= 2880
      /\ 2 * r.dh <= h * gd /\ r.magv * of <= 4 * gf * part
  BY DEF SizeOf, Inside
<1>5. /\ g.mode \in {"ntsc", "pal"}
      /\ \/ v = "fp1" /\ o.mode = g.mode
         \/ v = "fp2" /\ o.mode = (IF g.mode = "ntsc" THEN "480p" ELSE "576p") /\ ~o.interlace
         \/ v \in {"1080ix1", "1080ix2", "1080ix3"} /\ o.mode = "1080i" /\ o.interlace
  BY DEF Fits
<1>6. s.wide = Wide(v) /\ s.vckDiv = 4 \div AreaOf[o.mode].vck
  BY DEF Scaled
<1>7. o.interlace \in BOOLEAN
  BY DEF Fits, IsMode
<1> HIDE DEF d, g, o, v
<1>8. part \in {1, 2} /\ (v # "1080ix1" => part = 1)
  BY DEF Part
<1>9. h = IF g.mode = "ntsc" THEN 480 ELSE 576
  BY <1>5, Areas DEF Area
<1>10. /\ o.mode \in {"ntsc", "480p"} => /\ x = IF o.mode = "ntsc" THEN 1932 ELSE 966
                                        /\ AreaOf[o.mode].vck = IF o.mode = "ntsc" THEN 4 ELSE 2
       /\ o.mode \in {"pal", "576p"} => /\ x = IF o.mode = "pal" THEN 1960 ELSE 980
                                       /\ AreaOf[o.mode].vck = IF o.mode = "pal" THEN 4 ELSE 2
       /\ o.mode = "1080i" => x = 1196 /\ AreaOf[o.mode].vck = 1
  BY Areas DEF Area, CentreX
<1>11. /\ o.mode = "ntsc" => y = (IF o.interlace THEN 274 ELSE 137) /\ od = (IF o.interlace THEN 2 ELSE 1)
       /\ o.mode = "pal" => y = (IF o.interlace THEN 328 ELSE 164) /\ od = (IF o.interlace THEN 2 ELSE 1)
       /\ o.mode = "480p" => y = 274 /\ od = 2
       /\ o.mode = "576p" => y = 328 /\ od = 2
       /\ o.mode = "1080i" => y = 578 /\ od = 4
  BY <1>7, Areas DEF Area, CentreY, PictureLines
<1> HIDE DEF gf, gd, of, od, part, h, x, y
<1>12. 0 < d.magv /\ d.magv <= 4
  <2> DEFINE m == d.magv
             k == r.magv
  <2>1. m \in Int /\ k \in Nat /\ k > 0 /\ m * gf * part = k * of /\ k * of <= 4 * gf * part
    BY <1>2, <1>4
  <2> HIDE DEF m, k
  <2>2. 0 < m /\ m <= 4
    <3> DEFINE p == k * of
    <3>1. p \in Int /\ p > 0
      <4>1. CASE of = 1  BY <2>1, <4>1
      <4>2. CASE of = 2  BY <2>1, <4>2
      <4>3. CASE of = 4  BY <2>1, <4>3
      <4> QED BY <1>1, <4>1, <4>2, <4>3
    <3>2. m * gf * part = p /\ p <= 4 * gf * part
      BY <2>1
    <3> HIDE DEF p
    <3>3. CASE gf = 1 /\ part = 1  BY <2>1, <3>1, <3>2, <3>3
    <3>4. CASE gf = 1 /\ part = 2  BY <2>1, <3>1, <3>2, <3>4
    <3>5. CASE gf = 2 /\ part = 1  BY <2>1, <3>1, <3>2, <3>5
    <3>6. CASE gf = 2 /\ part = 2  BY <2>1, <3>1, <3>2, <3>6
    <3> QED BY <1>1, <1>8, <3>3, <3>4, <3>5, <3>6
  <2> QED BY <2>2 DEF m
<1>13. 0 < d.dh /\ 2 * d.dh * part <= h * od
  <2> DEFINE m == d.dh
             k == r.dh
  <2>1. m \in Int /\ k \in Nat /\ k > 0 /\ m * gd * part = k * od /\ 2 * k <= h * gd /\ h \in {480, 576}
    BY <1>2, <1>4, <1>9
  <2> HIDE DEF m, k
  <2>2. ASSUME NEW e \in {1, 2, 4}, od = e
        PROVE  0 < m /\ 2 * m * part <= h * od
    <3>1. CASE gd = 1 /\ part = 1  BY <2>1, <2>2, <3>1
    <3>2. CASE gd = 1 /\ part = 2  BY <2>1, <2>2, <3>2
    <3>3. CASE gd = 2 /\ part = 1  BY <2>1, <2>2, <3>3
    <3>4. CASE gd = 2 /\ part = 2  BY <2>1, <2>2, <3>4
    <3> QED BY <1>1, <1>8, <3>1, <3>2, <3>3, <3>4
  <2>3. 0 < m /\ 2 * m * part <= h * od
    BY <1>1, <2>2
  <2> QED BY <2>3 DEF m
<1>14. d.dh <= 2 * y /\ d.dh <= 1156 /\ y \in Nat /\ y < 2048
  <2> DEFINE m == d.dh
  <2>1. m \in Int /\ 0 < m /\ 2 * m * part <= h * od /\ part \in {1, 2}
    BY <1>2, <1>8, <1>13
  <2> HIDE DEF m
  <2>2. 2 * m <= h * od
    BY <1>1, <1>9, <2>1
  <2>3. m <= 2 * y /\ m <= 1156 /\ y \in Nat /\ y < 2048
    <3>1. CASE v = "fp1" /\ o.mode = g.mode /\ o.interlace
      BY <1>5, <1>9, <1>11, <2>1, <2>2, <3>1
    <3>2. CASE v = "fp1" /\ o.mode = g.mode /\ ~o.interlace
      BY <1>5, <1>9, <1>11, <2>1, <2>2, <3>2
    <3>3. CASE v = "fp2" /\ o.mode = (IF g.mode = "ntsc" THEN "480p" ELSE "576p")
      BY <1>5, <1>9, <1>11, <2>1, <2>2, <3>3
    <3>4. CASE o.mode = "1080i"
      BY <1>5, <1>9, <1>11, <2>1, <2>2, <3>4
    <3> QED BY <1>5, <1>7, <3>1, <3>2, <3>3, <3>4
  <2> QED BY <2>3 DEF m
<1>15. /\ x \in Nat /\ x < 4096
       /\ \/ s.wide = 1 /\ s.vckDiv = 1 /\ x >= 1932
          \/ s.wide = 1 /\ s.vckDiv = 2 /\ x >= 966
          \/ s.wide \in {1, 2, 3} /\ s.vckDiv = 4 /\ x = 1196
  <2>1. CASE v = "fp1" /\ o.mode = g.mode
    BY <1>5, <1>6, <1>10, <2>1 DEF Wide
  <2>2. CASE v = "fp2" /\ o.mode = (IF g.mode = "ntsc" THEN "480p" ELSE "576p")
    BY <1>5, <1>6, <1>10, <2>2 DEF Wide
  <2>3. CASE v \in {"1080ix1", "1080ix2", "1080ix3"} /\ o.mode = "1080i"
    BY <1>6, <1>10, <2>3 DEF Wide
  <2> QED BY <1>5, <2>1, <2>2, <2>3
<1>16. d.magh <= 16 /\ d.dw <= 2 * x /\ d.dw <= 4096
  <2> DEFINE m == d.magh
             k == d.dw
             a == r.magh
             b == r.dw
             w == s.wide
             e == s.vckDiv
  <2>1. /\ m \in Nat /\ k \in Int /\ k > 0 /\ a \in Nat /\ b \in Nat /\ a <= 16 /\ b <= 2880
        /\ m * e <= a * w /\ k * e <= b * w
    BY <1>2, <1>4
  <2> HIDE DEF m, k, a, b, w, e
  <2>2. m <= 16 /\ k <= 2 * x /\ k <= 4096
    <3>1. CASE w = 1 /\ e = 1 /\ x >= 1932
      BY <1>15, <2>1, <3>1
    <3>2. CASE w = 1 /\ e = 2 /\ x >= 966
      BY <1>15, <2>1, <3>2
    <3>3. CASE w \in {1, 2, 3} /\ e = 4 /\ x = 1196
      <4>1. a * w <= 48 /\ b * w <= 8640
        BY <2>1, <3>3
      <4> QED BY <2>1, <3>3, <4>1
    <3> QED BY <1>15, <3>1, <3>2, <3>3 DEF w, e
  <2> QED BY <2>2 DEF m, k
<1>17. d.dx \in Int /\ 0 <= d.dx /\ d.dx < 4096
  BY <1>2, <1>3, <1>15, <1>16
<1>18. d.dy \in Int /\ 0 <= d.dy /\ d.dy < 2048
  BY <1>2, <1>3, <1>13, <1>14
<1>19. d.dh <= 2048
  BY <1>2, <1>14
<1> QED BY <1>2, <1>12, <1>13, <1>16, <1>17, <1>18, <1>19 DEF d

LEMMA FieldKeeps ==
  ASSUME NEW n \in Int, NEW size \in Nat, 0 < n, n <= size
  PROVE  Field(n, size) = n
<1>1. n - 1 \in 0 .. size - 1 /\ size > 0
  OBVIOUS
<1>2. (n - 1) % size = n - 1
  BY <1>1, ModSmall
<1> QED BY <1>2 DEF Field

\* mod_DISPLAY() loses no bit of such a picture.
LEMMA ModDisplayIs ==
  ASSUME NEW s, Fits(s), Scaled(s), s.out.interlace = Forced(s.game, s.flags).interlace,
         NEW r, SizeOf(r), WholePicture(r), Inside(s, r)
  PROVE  LET d    == ModDisplay(s, r)
             part == Part(s.flags.video)
         IN  /\ d.magv * FrameLines(s.game) * part = r.magv * FrameLines(s.out)
             /\ d.dh * PictureLines(s.game) * part = r.dh * PictureLines(s.out)
             /\ d.dw * r.magh = r.dw * d.magh /\ d.magh > 0
             /\ d.dx + d.dw \div 2 = CentreX(s.out.mode)
             /\ d.dy + d.dh \div 2 = CentreY(s.out)
<1> DEFINE c == Computed(s, r)
           d == ModDisplay(s, r)
           m1 == 16
           m2 == 4
           m3 == 4096
           m4 == 2048
<1>1. /\ d.magh = Field(c.magh, m1) /\ d.magv = Field(c.magv, m2) /\ d.dw = Field(c.dw, m3)
      /\ d.dh = Field(c.dh, m4) /\ d.dx = c.dx % m3 /\ d.dy = c.dy % m4
  BY DEF ModDisplay, Computed
<1>2. /\ c.magh \in Int /\ c.magv \in Int /\ c.dw \in Int /\ c.dh \in Int
      /\ c.dx \in Int /\ c.dy \in Int
      /\ 0 < c.magh /\ c.magh <= m1 /\ 0 < c.magv /\ c.magv <= m2
      /\ 0 < c.dw /\ c.dw <= m3 /\ 0 < c.dh /\ c.dh <= m4
      /\ 0 <= c.dx /\ c.dx < m3 /\ 0 <= c.dy /\ c.dy < m4
  BY InRange
<1>3. m1 \in Nat /\ m2 \in Nat /\ m3 \in Nat /\ m4 \in Nat /\ m3 > 0 /\ m4 > 0
  OBVIOUS
<1> HIDE DEF c, d, m1, m2, m3, m4
<1>4. d.magh = c.magh /\ d.magv = c.magv /\ d.dw = c.dw /\ d.dh = c.dh
  BY <1>1, <1>2, <1>3, FieldKeeps
<1>5. d.dx = c.dx /\ d.dy = c.dy
  <2>1. c.dx \in 0 .. m3 - 1 /\ c.dy \in 0 .. m4 - 1
    BY <1>2, <1>3
  <2> QED BY <1>1, <1>3, <2>1, ModSmall
<1> QED BY <1>4, <1>5, ComputedIs DEF c, d

\* update_scaling() leaves the modes as they are, even when it stops at a
\* division by zero.
LEMMA CentreTyped ==
  ASSUME NEW m, IsMode(m)
  PROVE  IsMode(ScalingCenter(m)) /\ SameMode(ScalingCenter(m), m)
<1>1. \/ ScalingCenter(m) = m
      \/ \E v, d, b, x, y : ScalingCenter(m) = [m EXCEPT !.vck = v, !.dp = d, !.fb = b, !.xc = x, !.yc = y]
  BY Zenon DEF ScalingCenter
<1>2. CASE ScalingCenter(m) = m
  BY <1>2 DEF SameMode
<1>3. CASE \E v, d, b, x, y :
             ScalingCenter(m) = [m EXCEPT !.vck = v, !.dp = d, !.fb = b, !.xc = x, !.yc = y]
  <2> DEFINE n == ScalingCenter(m)
  <2>0. PICK v, d, b, x, y : n = [m EXCEPT !.vck = v, !.dp = d, !.fb = b, !.xc = x, !.yc = y]
    BY <1>3, Zenon
  <2>1. DOMAIN n = DOMAIN m /\ n.mode = m.mode /\ n.interlace = m.interlace /\ n.frame = m.frame
    BY <2>0 DEF IsMode, ModeFields
  <2> QED BY <2>1 DEF IsMode, SameMode
<1> QED BY <1>1, <1>2, <1>3

LEMMA ScalingTyped ==
  ASSUME NEW s, DOMAIN s = StateFields, IsMode(s.game), IsMode(s.out)
  PROVE  LET t == UpdateScaling(s) IN
         /\ DOMAIN t = StateFields /\ t.flags = s.flags /\ t.last = s.last
         /\ IsMode(t.game) /\ IsMode(t.out) /\ SameMode(t.game, s.game) /\ SameMode(t.out, s.out)
<1> DEFINE game == ScalingCenter(s.game)
           mid  == ScalingCenter(s.out)
           out  == IF s.flags.video = "1080ix1" THEN Half(mid) ELSE mid
           t    == UpdateScaling(s)
<1>1. \/ t = [s EXCEPT !.game = game, !.out = out]
      \/ \E w, a, h, v :
           t = [s EXCEPT !.game = game, !.out = out, !.wide = w, !.tall = a, !.high = h, !.vckDiv = v]
  BY Zenon DEF UpdateScaling
<1>2. IsMode(game) /\ SameMode(game, s.game) /\ IsMode(mid) /\ SameMode(mid, s.out)
  BY CentreTyped
<1> HIDE DEF game, mid, t
<1>3. IsMode(out) /\ SameMode(out, s.out)
  BY <1>2 DEF Half, IsMode, SameMode, ModeFields
<1> HIDE DEF out
<1>4. /\ DOMAIN t = StateFields /\ t.flags = s.flags /\ t.last = s.last /\ t.game = game /\ t.out = out
  <2>1. CASE t = [s EXCEPT !.game = game, !.out = out]
    BY <2>1 DEF StateFields
  <2>2. CASE \E w, a, h, v :
           t = [s EXCEPT !.game = game, !.out = out, !.wide = w, !.tall = a, !.high = h, !.vckDiv = v]
    <3>1. PICK w, a, h, v :
           t = [s EXCEPT !.game = game, !.out = out, !.wide = w, !.tall = a, !.high = h, !.vckDiv = v]
      BY <2>2
    <3> QED BY <3>1 DEF StateFields
  <2> QED BY <1>1, <2>1, <2>2
<1> QED BY <1>2, <1>3, <1>4 DEF t

\* What is made of a picture depends on the factors and the centre.
LEMMA SameDisplay ==
  ASSUME NEW s, NEW t, NEW r, t.wide = s.wide, t.vckDiv = s.vckDiv, t.tall = s.tall, t.high = s.high,
         t.out = s.out
  PROVE  ModDisplay(t, r) = ModDisplay(s, r)
BY DEF ModDisplay

\* A mode that is supported is forced to one that fits.
LEMMA ForcedFits ==
  ASSUME NEW s, DOMAIN s = StateFields, IsMode(s.game), s.flags.video \in KnownVideoArgs,
         Supported(s.game.mode, s.flags), s.out = Forced(s.game, s.flags)
  PROVE  Fits(s)
<1> DEFINE g == s.game
           o == s.out
           v == s.flags.video
<1>1. g.mode \in {"ntsc", "pal"} /\ IsMode(g) /\ v \in {"fp1", "fp2", "1080ix1", "1080ix2", "1080ix3"}
  BY DEF Supported, KnownVideoArgs
<1>2. o = Forced(g, s.flags)
  OBVIOUS
<1> HIDE DEF g, o
<1>3. CASE v = "fp1"
  <2>1. o = IF g.interlace /\ g.frame THEN [g EXCEPT !.interlace = FALSE] ELSE g
    BY <1>2, <1>3 DEF Forced
  <2>2. IsMode(o) /\ o.mode = g.mode /\ o.frame = g.frame
    BY <1>1, <2>1 DEF IsMode, ModeFields
  <2> QED BY <1>1, <1>3, <2>2 DEF Fits, g, o
<1>4. CASE v = "fp2"
  <2>1. o = [g EXCEPT !.interlace = FALSE, !.frame = TRUE, !.mode = IF @ = "ntsc" THEN "480p" ELSE "576p"]
    BY <1>2, <1>4 DEF Forced
  <2>2. IsMode(o) /\ o.mode = (IF g.mode = "ntsc" THEN "480p" ELSE "576p") /\ ~o.interlace
    BY <1>1, <2>1 DEF IsMode, ModeFields
  <2> QED BY <1>1, <1>4, <2>2 DEF Fits, g, o
<1>5. CASE v \in {"1080ix1", "1080ix2", "1080ix3"}
  <2>1. o = [g EXCEPT !.interlace = TRUE, !.mode = "1080i"]
    BY <1>2, <1>5 DEF Forced
  <2>2. IsMode(o) /\ o.mode = "1080i" /\ o.interlace /\ o.frame = g.frame
    BY <1>1, <2>1 DEF IsMode, ModeFields
  <2> QED BY <1>1, <1>5, <2>2 DEF Fits, g, o
<1> QED BY <1>1, <1>3, <1>4, <1>5

LEMMA ForcedTyped ==
  ASSUME NEW g, IsMode(g), NEW f
  PROVE  IsMode(Forced(g, f))
<1>1. \/ Forced(g, f) = g
      \/ Forced(g, f) = [g EXCEPT !.interlace = FALSE]
      \/ \E m : Forced(g, f) = [g EXCEPT !.interlace = FALSE, !.frame = TRUE, !.mode = m]
      \/ Forced(g, f) = [g EXCEPT !.interlace = TRUE, !.mode = "1080i"]
  BY DEF Forced
<1>2. CASE Forced(g, f) = g
  BY <1>2
<1>3. CASE Forced(g, f) = [g EXCEPT !.interlace = FALSE]
  BY <1>3 DEF IsMode, ModeFields
<1>4. ASSUME NEW m, Forced(g, f) = [g EXCEPT !.interlace = FALSE, !.frame = TRUE, !.mode = m]
      PROVE  IsMode(Forced(g, f))
  BY <1>4 DEF IsMode, ModeFields
<1>5. CASE Forced(g, f) = [g EXCEPT !.interlace = TRUE, !.mode = "1080i"]
  BY <1>5 DEF IsMode, ModeFields
<1> QED BY <1>1, <1>2, <1>3, <1>4, <1>5

-----------------------------------------------------------------------------
(* The pictures that are shown *)

\* While the handler is in charge of a mode it supports, the factors are those
\* of the mode, and every picture that the title wants is kept and shown scaled.
Shown ==
  /\ Fits(gsm) /\ Scaled(gsm) /\ gs.mode = ModeOf(gsm.out)
  /\ \A c \in Circuits : title.wanted[c] # NoPicture =>
       /\ title.wanted[c] \in Pictures /\ gsm.last[c] = title.wanted[c]
       /\ gs.display[c] = ModDisplay(gsm, title.wanted[c])
InCharge == gs.trap /\ Supported(gsm.game.mode, gsm.flags)

PictureTyped ==
  /\ DOMAIN gsm = StateFields /\ IsMode(gsm.game) /\ IsMode(gsm.out) /\ DOMAIN gsm.last = Circuits
  /\ {"mode", "display", "trap"} \subseteq DOMAIN gs /\ {"wanted", "own"} \subseteq DOMAIN title
  /\ DOMAIN gs.mode = {"mode", "interlace", "frame"}
  /\ DOMAIN gs.display = Circuits /\ DOMAIN title.wanted = Circuits

\* The mode the title set is the one that the handler knows, unless a write of
\* it was discarded.
OwnMode ==
  /\ title.own = ModeOf(gsm.game) \/ title.own.mode = "none"
  /\ pc \notin TitlePcs => title.own.mode = "none"

PictureInv ==
  /\ PictureTyped /\ OwnMode
  /\ gs.trap => pc \in TitlePcs
  /\ Running => gsm.flags.video \in KnownVideoArgs
  /\ Running /\ InCharge => Shown

LEMMA UpTo == ASSUME NEW n \in Nat, NEW k \in 1 .. n PROVE k \in Nat /\ k > 0 /\ k <= n
OBVIOUS

LEMMA PictureSizes == \A p \in Pictures : SizeOf(p)
<1> DEFINE m == 16
           v == 4
           w == 4096
           h == 2048
           R == [video : STRING, comp : {"", "1", "2", "3"}, old : BOOLEAN]
           S == [magh : 1 .. m, magv : 1 .. v, dw : 1 .. w, dh : 1 .. h]
<1>1. /\ \A a \in GsmArgs : a \in R
      /\ \A p \in Pictures : p \in S
  BY EgsmAssumption
<1>2. m \in Nat /\ v \in Nat /\ w \in Nat /\ h \in Nat
  OBVIOUS
<1> HIDE DEF m, v, w, h, R
<1>3. ASSUME NEW p \in Pictures PROVE SizeOf(p)
  <2>1. p \in S
    BY <1>1
  <2>2. p.magh \in 1 .. m /\ p.magv \in 1 .. v /\ p.dw \in 1 .. w /\ p.dh \in 1 .. h
    BY <2>1
  <2>3. p.magh \in Nat /\ p.magh > 0 /\ p.magh <= m
    BY <1>2, <2>2, UpTo
  <2>4. p.magv \in Nat /\ p.magv > 0 /\ p.dw \in Nat /\ p.dw > 0 /\ p.dh \in Nat /\ p.dh > 0
    BY <1>2, <2>2, UpTo
  <2> QED BY <2>3, <2>4 DEF SizeOf, m
<1> QED BY <1>3

LEMMA ForcedSame ==
  ASSUME NEW m, IsMode(m), NEW f
  PROVE  Forced(ModeOf(m), f).interlace = Forced(m, f).interlace
<1> DEFINE n == ModeOf(m)
           k == Forced(n, f)
           l == Forced(m, f)
<1>1. /\ {"mode", "interlace", "frame"} \subseteq DOMAIN m
      /\ {"mode", "interlace", "frame"} \subseteq DOMAIN n
      /\ n.interlace = m.interlace /\ n.frame = m.frame
  BY DEF IsMode, ModeFields, ModeOf
<1> HIDE DEF n
<1>2. CASE f.video = "fp1"
  <2>1. /\ k = IF n.interlace /\ n.frame THEN [n EXCEPT !.interlace = FALSE] ELSE n
        /\ l = IF m.interlace /\ m.frame THEN [m EXCEPT !.interlace = FALSE] ELSE m
    BY <1>2, Zenon DEF Forced
  <2> HIDE DEF k, l
  <2>2. k.interlace = l.interlace
    BY <1>1, <2>1
  <2> QED BY <2>2 DEF k, l, n
<1>3. CASE f.video = "fp2"
  <2>1. /\ \E x : k = [n EXCEPT !.interlace = FALSE, !.frame = TRUE, !.mode = x]
        /\ \E x : l = [m EXCEPT !.interlace = FALSE, !.frame = TRUE, !.mode = x]
    BY <1>3, Zenon DEF Forced
  <2> HIDE DEF k, l
  <2>2. k.interlace = FALSE /\ l.interlace = FALSE
    BY <1>1, <2>1
  <2> QED BY <2>2 DEF k, l, n
<1>4. CASE f.video # "fp1" /\ f.video # "fp2"
  <2>1. /\ k = [n EXCEPT !.interlace = TRUE, !.mode = "1080i"]
        /\ l = [m EXCEPT !.interlace = TRUE, !.mode = "1080i"]
    BY <1>4, Zenon DEF Forced
  <2> HIDE DEF k, l
  <2>2. k.interlace = TRUE /\ l.interlace = TRUE
    BY <1>1, <2>1
  <2> QED BY <2>2 DEF k, l, n
<1> QED BY <1>2, <1>3, <1>4

LEMMA ShownIsMeant == ASSUME PictureInv PROVE ShownAsMeant
<1> SUFFICES ASSUME Running, gs.trap, Supported(title.own.mode, gsm.flags),
                    gsm.out.interlace = Forced(title.own, gsm.flags).interlace,
                    NEW c \in Circuits, title.wanted[c] # NoPicture, Suits(title.wanted[c])
             PROVE  LET d    == gs.display[c]
                        w    == title.wanted[c]
                        part == Part(gsm.flags.video)
                        a    == AreaOf[gs.mode.mode]
                        low  == gs.mode.mode \in {"ntsc", "pal"} /\ ~gs.mode.interlace
                    IN  /\ d.magv * FrameLines(title.own) * part = w.magv * FrameLines(gs.mode)
                        /\ d.dh * PictureLines(title.own) * part = w.dh * PictureLines(gs.mode)
                        /\ d.dw * w.magh = w.dw * d.magh /\ d.magh > 0
                        /\ d.dx + d.dw \div 2 = (a.xoff + a.w \div 2) * a.vck
                        /\ d.dy + d.dh \div 2
                             = (IF low THEN a.yoff \div 2 + a.h \div 4 ELSE a.yoff + a.h \div 2)
  BY DEF ShownAsMeant
<1> DEFINE w == title.wanted[c]
           d == gs.display[c]
           o == gsm.out
           g == gsm.game
           n == title.own
           f == gsm.flags
           part == Part(gsm.flags.video)
<1>0. /\ n = ModeOf(g) /\ SameMode(n, g) /\ IsMode(g) /\ Supported(g.mode, f)
      /\ g.mode \in {"ntsc", "pal"} /\ n.mode = g.mode
  <2>1. n.mode \in {"ntsc", "pal"}
    BY DEF Supported
  <2>2. n = ModeOf(g) /\ IsMode(g)
    BY <2>1 DEF PictureInv, PictureTyped, OwnMode
  <2>3. SameMode(n, g)
    BY <2>2 DEF ModeOf, SameMode
  <2> QED BY <2>1, <2>2, <2>3 DEF SameMode
<1>1. /\ Fits(gsm) /\ Scaled(gsm) /\ gs.mode = ModeOf(o) /\ w \in Pictures
      /\ d = ModDisplay(gsm, w)
  BY <1>0 DEF PictureInv, InCharge, Shown
<1>2. FrameLines(n) = FrameLines(g) /\ PictureLines(n) = PictureLines(g)
  BY <1>0, SameLines
<1>3. o.interlace = Forced(g, f).interlace
  BY <1>0, ForcedSame
<1>4. SameMode(gs.mode, o)
  BY <1>1 DEF ModeOf, SameMode
<1>5. FrameLines(gs.mode) = FrameLines(o) /\ PictureLines(gs.mode) = PictureLines(o)
      /\ CentreY(gs.mode) = CentreY(o) /\ gs.mode.mode = o.mode
  BY <1>4, SameLines DEF SameMode
<1>6. SizeOf(w)
  BY <1>1, PictureSizes
<1>7. CentreX(o.mode) = (AreaOf[gs.mode.mode].xoff + AreaOf[gs.mode.mode].w \div 2) * AreaOf[gs.mode.mode].vck
  BY <1>5 DEF CentreX
<1>8. CentreY(gs.mode) = IF gs.mode.mode \in {"ntsc", "pal"} /\ ~gs.mode.interlace
                           THEN AreaOf[gs.mode.mode].yoff \div 2 + AreaOf[gs.mode.mode].h \div 4
                           ELSE AreaOf[gs.mode.mode].yoff + AreaOf[gs.mode.mode].h \div 2
  BY Zenon DEF CentreY
<1>9. /\ w.magh >= 4 /\ w.dw % w.magh = 0 /\ w.dw <= AreaOf[n.mode].w * AreaOf[n.mode].vck
      /\ w.dh % 2 = 0 /\ 2 * w.dh <= AreaOf[n.mode].h * PictureLines(n)
      /\ w.magv * FrameLines(gs.mode) <= 4 * FrameLines(n) * part
  BY Zenon DEF Suits
<1>10. AreaOf[g.mode].w * AreaOf[g.mode].vck = 2880
  BY <1>0, Areas DEF Area
<1> HIDE DEF w, d, o, g, n, f, part
<1>11. WholePicture(w)
  BY <1>9 DEF WholePicture
<1>12. Inside(gsm, w)
  <2>1. w.dw <= 2880
    BY <1>0, <1>9, <1>10
  <2>2. 2 * w.dh <= AreaOf[g.mode].h * PictureLines(g)
    BY <1>0, <1>2, <1>9
  <2>3. w.magv * FrameLines(o) <= 4 * FrameLines(g) * part
    BY <1>2, <1>5, <1>9
  <2> QED BY <2>1, <2>2, <2>3 DEF Inside, g, o, part
<1>13. /\ d.magv * FrameLines(g) * part = w.magv * FrameLines(o)
       /\ d.dh * PictureLines(g) * part = w.dh * PictureLines(o)
       /\ d.dw * w.magh = w.dw * d.magh /\ d.magh > 0
       /\ d.dx + d.dw \div 2 = CentreX(o.mode)
       /\ d.dy + d.dh \div 2 = CentreY(o)
  BY <1>1, <1>3, <1>6, <1>11, <1>12, ModDisplayIs DEF g, o, f, part
<1>14. /\ d.magv * FrameLines(n) * part = w.magv * FrameLines(gs.mode)
       /\ d.dh * PictureLines(n) * part = w.dh * PictureLines(gs.mode)
  BY <1>2, <1>5, <1>13
<1>15. /\ d.dx + d.dw \div 2 = (AreaOf[gs.mode.mode].xoff + AreaOf[gs.mode.mode].w \div 2) * AreaOf[gs.mode.mode].vck
       /\ d.dy + d.dh \div 2 = CentreY(gs.mode)
  BY <1>5, <1>7, <1>13
<1> QED BY <1>8, <1>13, <1>14, <1>15, Zenon DEF w, d, n, part

LEMMA PictureInit == Init => PictureInv
<1> SUFFICES ASSUME Init PROVE PictureInv
  OBVIOUS
<1>1. gsm = GsmState(GsmOff) /\ pc = "init"
  BY Zenon DEF Init, EgsmInit, ConsoleInit, MbrInit
<1>2. /\ gs = [mode |-> ModeOf(NoMode), display |-> [c \in Circuits |-> Raw],
               vsint |-> FALSE, trap |-> FALSE]
      /\ title = [wanted |-> [c \in Circuits |-> NoPicture], own |-> ModeOf(NoMode),
                  edge |-> FALSE, field |-> 0, lost |-> FALSE]
  BY Zenon DEF Init, EgsmInit
<1>3. DOMAIN gsm = StateFields /\ gsm.game = NoMode /\ gsm.out = NoMode /\ DOMAIN gsm.last = Circuits
  BY <1>1 DEF GsmState, StateFields
<1>4. IsMode(NoMode)
  BY DEF IsMode, ModeFields, NoMode
<1>5. /\ {"mode", "display", "trap"} \subseteq DOMAIN gs /\ {"wanted", "own"} \subseteq DOMAIN title
      /\ DOMAIN gs.mode = {"mode", "interlace", "frame"} /\ gs.trap = FALSE
      /\ DOMAIN gs.display = Circuits /\ DOMAIN title.wanted = Circuits
  BY <1>2 DEF ModeOf
<1>6. title.own.mode = "none"
  BY <1>2 DEF ModeOf, NoMode
<1> QED BY <1>1, <1>3, <1>4, <1>5, <1>6 DEF PictureInv, PictureTyped, OwnMode, InCharge, Running

LEMMA OthersPicture ==
  ASSUME PictureInv, UNCHANGED gsmVars, pc' = pc \/ (pc \notin TitlePcs /\ pc' # "title")
  PROVE  PictureInv'
<1>1. gsm' = gsm /\ gs' = gs /\ title' = title
  BY DEF gsmVars
<1>2. PictureTyped' /\ OwnMode'
  BY <1>1 DEF PictureInv, PictureTyped, OwnMode
<1>3. CASE pc' = pc
  <2>1. Running' = Running /\ InCharge' = InCharge /\ Shown' = Shown
    BY <1>1, <1>3, Zenon DEF Running, InCharge, Shown
  <2> QED BY <1>1, <1>2, <1>3, <2>1 DEF PictureInv
<1>4. CASE pc \notin TitlePcs /\ pc' # "title"
  <2>1. ~gs'.trap /\ ~Running'
    BY <1>1, <1>4 DEF PictureInv, Running
  <2> QED BY <1>2, <2>1 DEF PictureInv
<1> QED BY <1>3, <1>4

LEMMA TitlePicture == ASSUME PictureInv, StartTitle PROVE PictureInv'
<1>1. pc = "app" /\ gs' = gs /\ title' = title /\ pc' = "title"
  BY Zenon DEF StartTitle, EnableGSM
<1>2. PICK a \in GsmArgs : GsmFlags(a) # GsmOff /\ gsm' = GsmState(GsmFlags(a))
  BY Zenon DEF StartTitle, EnableGSM
<1>3. ~gs.trap
  BY <1>1 DEF PictureInv, TitlePcs
<1>4. DOMAIN gsm' = StateFields /\ gsm'.game = NoMode /\ gsm'.out = NoMode
      /\ DOMAIN gsm'.last = Circuits /\ gsm'.flags = GsmFlags(a)
  BY <1>2 DEF GsmState, StateFields
<1>5. GsmFlags(a).video \in KnownVideoArgs
  <2>1. a.video \in KnownVideoArgs
    BY <1>2, Zenon DEF GsmFlags
  <2>2. GsmFlags(a) = [video |-> a.video, comp |-> a.comp, no576p |-> a.old]
    BY <2>1, Zenon DEF GsmFlags
  <2> QED BY <2>1, <2>2
<1>6. IsMode(NoMode)
  BY DEF IsMode, ModeFields, NoMode
<1>7. title.own.mode = "none"
  BY <1>1 DEF PictureInv, OwnMode, TitlePcs
<1> QED BY <1>1, <1>3, <1>4, <1>5, <1>6, <1>7 DEF PictureInv, PictureTyped, OwnMode, InCharge

LEMMA SetGsCrtPicture == ASSUME PictureInv, SetGsCrt PROVE PictureInv'
<1>1. PICK i \in BOOLEAN, f \in BOOLEAN, m \in GameModes(gsm.flags.comp) :
        LET game == [gsm.game EXCEPT !.interlace = i, !.mode = m, !.frame = f]
            next == UpdateScaling([gsm EXCEPT !.game = game, !.out = Forced(game, gsm.flags)])
        IN /\ IF Supported(m, gsm.flags)
                THEN /\ gsm' = next
                     /\ gs' = [gs EXCEPT !.mode = ModeOf(next.out), !.trap = TRUE,
                                     !.display = [c \in Circuits |-> Raw]]
                ELSE gsm' = [gsm EXCEPT !.game = game, !.out = game] /\ UNCHANGED gs
           /\ title' = [title EXCEPT !.wanted = [c \in Circuits |-> NoPicture],
                                     !.own = [mode |-> m, interlace |-> i, frame |-> f]]
  BY Zenon DEF SetGsCrt
<1> DEFINE game == [gsm.game EXCEPT !.interlace = i, !.mode = m, !.frame = f]
           s    == [gsm EXCEPT !.game = game, !.out = Forced(game, gsm.flags)]
<1>2. \/ /\ Supported(m, gsm.flags)
         /\ gsm' = UpdateScaling(s)
         /\ gs' = [gs EXCEPT !.mode = ModeOf(gsm'.out), !.trap = TRUE,
                             !.display = [c \in Circuits |-> Raw]]
      \/ /\ ~Supported(m, gsm.flags)
         /\ gsm' = [gsm EXCEPT !.game = game, !.out = game] /\ gs' = gs
  BY <1>1, Zenon
<1> DEFINE own == [mode |-> m, interlace |-> i, frame |-> f]
<1>3. /\ title' = [title EXCEPT !.wanted = [c \in Circuits |-> NoPicture], !.own = own]
      /\ pc = "title" /\ pc' = "title"
  <2>1. pc = "title" /\ pc' = "title"
    BY Zenon DEF SetGsCrt, consoleVars, Running
  <2> QED BY <1>1, <2>1, Zenon
<1>4. DOMAIN gsm = StateFields /\ IsMode(gsm.game) /\ DOMAIN gsm.last = Circuits
      /\ gsm.flags.video \in KnownVideoArgs
  BY <1>3 DEF PictureInv, PictureTyped, Running
<1>5. IsMode(game) /\ game.mode = m /\ game.interlace = i /\ game.frame = f
  BY <1>4 DEF IsMode, ModeFields
<1>6. /\ {"wanted", "own"} \subseteq DOMAIN title' /\ title'.wanted = [c \in Circuits |-> NoPicture]
      /\ title'.own = own
  BY <1>3 DEF PictureInv, PictureTyped
<1>9. ASSUME SameMode(gsm'.game, game) PROVE OwnMode'
  BY <1>3, <1>5, <1>6, <1>9 DEF OwnMode, ModeOf, SameMode, TitlePcs
<1> HIDE DEF game
<1>7. CASE ~Supported(m, gsm.flags) /\ gsm' = [gsm EXCEPT !.game = game, !.out = game] /\ gs' = gs
  <2>1. DOMAIN gsm' = StateFields /\ gsm'.game = game /\ gsm'.out = game /\ gsm'.last = gsm.last
        /\ gsm'.flags = gsm.flags
    BY <1>4, <1>7 DEF StateFields
  <2>2. PictureTyped'
    BY <1>4, <1>5, <1>6, <1>7, <2>1 DEF PictureInv, PictureTyped
  <2>3. ~InCharge'
    BY <1>5, <1>7, <2>1 DEF InCharge
  <2>4. OwnMode'
    BY <1>9, <2>1 DEF SameMode
  <2> QED BY <1>3, <1>4, <2>1, <2>2, <2>3, <2>4 DEF PictureInv, TitlePcs
<1>8. CASE /\ Supported(m, gsm.flags)
           /\ gsm' = UpdateScaling(s)
           /\ gs' = [gs EXCEPT !.mode = ModeOf(gsm'.out), !.trap = TRUE,
                               !.display = [c \in Circuits |-> Raw]]
  <2>1. DOMAIN s = StateFields /\ s.game = game /\ s.out = Forced(game, gsm.flags)
        /\ s.last = gsm.last /\ s.flags = gsm.flags
    BY <1>4 DEF StateFields
  <2> HIDE DEF s
  <2>2. Fits(s)
    BY <1>4, <1>5, <1>8, <2>1, ForcedFits
  <2>3. /\ DOMAIN gsm' = StateFields /\ gsm'.flags = gsm.flags /\ gsm'.last = gsm.last
        /\ Fits(gsm') /\ Scaled(gsm') /\ SameMode(gsm'.game, game)
    BY <1>8, <2>1, <2>2, ScalingIs
  <2>4. /\ {"mode", "display", "trap"} \subseteq DOMAIN gs' /\ gs'.mode = ModeOf(gsm'.out)
        /\ gs'.display = [c \in Circuits |-> Raw]
    BY <1>8 DEF PictureInv, PictureTyped
  <2>5. PictureTyped'
    <3>1. IsMode(gsm'.game) /\ IsMode(gsm'.out)
      BY <2>3 DEF Fits
    <3>2. DOMAIN gs'.mode = {"mode", "interlace", "frame"} /\ DOMAIN gs'.display = Circuits
      BY <2>4 DEF ModeOf
    <3> QED BY <1>4, <1>6, <2>3, <2>4, <3>1, <3>2 DEF PictureTyped
  <2>6. Shown'
    BY <1>6, <2>3, <2>4 DEF Shown
  <2>7. OwnMode'
    BY <1>9, <2>3
  <2> QED BY <1>3, <1>4, <2>3, <2>5, <2>6, <2>7 DEF PictureInv, TitlePcs
<1> QED BY <1>2, <1>7, <1>8

LEMMA DisplayPicture ==
  ASSUME PictureInv, NEW c \in Circuits, NEW r \in Pictures \cup {NoPicture}, WriteDisplay(c, r)
  PROVE  PictureInv'
<1>1. pc = "title" /\ pc' = pc /\ gs.trap
  BY Zenon DEF WriteDisplay, consoleVars, Running
<1>2. gsm' = [gsm EXCEPT !.last = [gsm.last EXCEPT ![c] = r]]
  BY DEF WriteDisplay
<1>3. gs' = [gs EXCEPT !.display = [gs.display EXCEPT ![c] = ModDisplay(gsm, r)]]
  BY DEF WriteDisplay
<1>4. title' = [title EXCEPT !.wanted = [title.wanted EXCEPT ![c] = r]]
  BY DEF WriteDisplay
<1>5. PictureTyped /\ OwnMode
  BY DEF PictureInv
<1> DEFINE last    == [gsm.last EXCEPT ![c] = r]
           display == [gs.display EXCEPT ![c] = ModDisplay(gsm, r)]
           wanted  == [title.wanted EXCEPT ![c] = r]
<1>6. /\ DOMAIN last = Circuits /\ DOMAIN display = Circuits /\ DOMAIN wanted = Circuits
      /\ last[c] = r /\ display[c] = ModDisplay(gsm, r) /\ wanted[c] = r
      /\ \A d \in Circuits \ {c} : /\ last[d] = gsm.last[d] /\ display[d] = gs.display[d]
                                   /\ wanted[d] = title.wanted[d]
  BY <1>5 DEF PictureTyped
<1> HIDE DEF last, display, wanted
<1>7. gsm' = [gsm EXCEPT !.last = last] /\ gs' = [gs EXCEPT !.display = display]
      /\ title' = [title EXCEPT !.wanted = wanted]
  BY <1>2, <1>3, <1>4, Zenon DEF last, display, wanted
<1>8. /\ DOMAIN gsm' = StateFields /\ gsm'.last = last /\ gsm'.game = gsm.game /\ gsm'.out = gsm.out
      /\ gsm'.flags = gsm.flags /\ gsm'.wide = gsm.wide /\ gsm'.tall = gsm.tall
      /\ gsm'.high = gsm.high /\ gsm'.vckDiv = gsm.vckDiv
  BY <1>5, <1>7 DEF PictureTyped, StateFields
<1>9. /\ DOMAIN gs' = DOMAIN gs /\ gs'.mode = gs.mode /\ gs'.display = display /\ gs'.trap = gs.trap
      /\ DOMAIN title' = DOMAIN title /\ title'.wanted = wanted /\ title'.own = title.own
  BY <1>5, <1>7 DEF PictureTyped
<1>10. PictureTyped' /\ OwnMode'
  BY <1>1, <1>5, <1>6, <1>8, <1>9 DEF PictureTyped, OwnMode
<1>11. ASSUME InCharge' PROVE Shown'
  <2>1. Shown
    BY <1>1, <1>8, <1>9, <1>11 DEF PictureInv, InCharge, Running
  <2>2. Fits(gsm') /\ Scaled(gsm') /\ gs'.mode = ModeOf(gsm'.out)
    BY <1>8, <1>9, <2>1, Zenon DEF Shown, Fits, Scaled
  <2>3. ASSUME NEW d \in Circuits, wanted[d] # NoPicture
        PROVE  /\ wanted[d] \in Pictures /\ last[d] = wanted[d]
               /\ display[d] = ModDisplay(gsm', wanted[d])
    <3>1. ModDisplay(gsm', wanted[d]) = ModDisplay(gsm, wanted[d])
      BY <1>8, SameDisplay
    <3>2. CASE d = c
      BY <1>6, <2>3, <3>1, <3>2
    <3>3. CASE d # c
      BY <1>6, <2>1, <2>3, <3>1, <3>3 DEF Shown
    <3> QED BY <3>2, <3>3
  <2> QED BY <1>8, <1>9, <2>2, <2>3 DEF Shown
<1> QED BY <1>1, <1>8, <1>9, <1>10, <1>11 DEF PictureInv, TitlePcs, Running

\* Of a picture that is discarded nothing is claimed.
LEMMA DiscardedPicture ==
  ASSUME PictureInv, NEW c \in Circuits, DisplayDiscarded(c)
  PROVE  PictureInv'
<1>1. /\ pc = "title" /\ pc' = pc /\ gsm' = gsm /\ gs' = gs
      /\ title' = [title EXCEPT !.wanted = [title.wanted EXCEPT ![c] = NoPicture]]
  BY DEF DisplayDiscarded, consoleVars, Running
<1>2. PictureTyped /\ OwnMode
  BY DEF PictureInv
<1>3. /\ DOMAIN title' = DOMAIN title /\ title'.own = title.own
      /\ title'.wanted = [title.wanted EXCEPT ![c] = NoPicture]
  BY <1>1, <1>2 DEF PictureTyped
<1>4. /\ DOMAIN title'.wanted = Circuits
      /\ \A d \in Circuits : title'.wanted[d] # NoPicture => title'.wanted[d] = title.wanted[d]
  BY <1>2, <1>3 DEF PictureTyped
<1>5. PictureTyped' /\ OwnMode'
  BY <1>1, <1>2, <1>3, <1>4 DEF PictureTyped, OwnMode
<1>6. ASSUME Shown PROVE Shown'
  <2>1. Fits(gsm') /\ Scaled(gsm') /\ gs'.mode = ModeOf(gsm'.out)
    BY <1>1, <1>6, Zenon DEF Shown, Fits, Scaled
  <2> QED BY <1>1, <1>4, <1>6, <2>1 DEF Shown
<1>7. InCharge' = InCharge
  BY <1>1, Zenon DEF InCharge
<1> QED BY <1>1, <1>5, <1>6, <1>7 DEF PictureInv, Running

\* Without breakpoints the handler is not in charge.
LEMMA RawPicture ==
  ASSUME PictureInv, pc = "title", pc' \in TitlePcs, PictureTyped', ~gs'.trap, gsm' = gsm,
         title'.own = title.own
  PROVE  PictureInv'
<1>1. OwnMode'
  BY DEF PictureInv, OwnMode
<1> QED BY <1>1 DEF PictureInv, InCharge, Running

\* A step that does not touch the picture.
LEMMA QuietPicture ==
  ASSUME PictureInv, PictureTyped', pc' = pc, gs'.trap = gs.trap, gs'.mode = gs.mode,
         gs'.display = gs.display, title'.wanted = title.wanted,
         title'.own = title.own \/ title'.own.mode = "none",
         \A x \in {"flags", "game", "out", "last", "wide", "tall", "high", "vckDiv"} : gsm'[x] = gsm[x]
  PROVE  PictureInv'
<1>1. /\ gsm'.last = gsm.last /\ gsm'.game = gsm.game /\ gsm'.out = gsm.out
      /\ gsm'.flags = gsm.flags /\ gsm'.wide = gsm.wide /\ gsm'.tall = gsm.tall
      /\ gsm'.high = gsm.high /\ gsm'.vckDiv = gsm.vckDiv
  OBVIOUS
<1>2. Running' = Running /\ InCharge' = InCharge
  BY <1>1 DEF Running, InCharge
<1>3. ASSUME Shown PROVE Shown'
  <2>1. Fits(gsm') /\ Scaled(gsm') /\ gs'.mode = ModeOf(gsm'.out)
    BY <1>1, <1>3, Zenon DEF Shown, Fits, Scaled
  <2>2. \A r : ModDisplay(gsm', r) = ModDisplay(gsm, r)
    BY <1>1, SameDisplay
  <2> QED BY <1>1, <1>3, <2>1, <2>2 DEF Shown
<1>4. OwnMode'
  BY <1>1 DEF PictureInv, OwnMode
<1> QED BY <1>1, <1>2, <1>3, <1>4 DEF PictureInv

LEMMA Smode2Picture == ASSUME PictureInv, WriteSmode2 PROVE PictureInv'
<1>1. PICK i \in BOOLEAN, f \in BOOLEAN :
        LET asked1 == [gsm EXCEPT !.game.interlace = i, !.game.frame = f,
                                  !.out.frame = IF i THEN f ELSE @]
            next  == UpdateScaling(asked1)
        IN /\ gsm' = next
           /\ IF Divides(next)
                THEN /\ gs' = [gs EXCEPT
                          !.display = Rescaled(next), !.mode.interlace = next.out.interlace,
                          !.mode.frame = next.out.frame]
                     /\ UNCHANGED pc
                ELSE pc' = "trap" /\ UNCHANGED gs
           /\ title' = [title EXCEPT !.own = [mode |-> gsm.game.mode, interlace |-> i, frame |-> f]]
  BY Zenon DEF WriteSmode2
<1> DEFINE game == [gsm.game EXCEPT !.interlace = i, !.frame = f]
           out  == [gsm.out EXCEPT !.frame = IF i THEN f ELSE @]
           g1   == [gsm EXCEPT !.game.interlace = i]
           g2   == [g1 EXCEPT !.game.frame = f]
           s    == [g2 EXCEPT !.out.frame = IF i THEN f ELSE @]
           d    == Rescaled(gsm')
           n    == gsm'.out.interlace
           e    == gsm'.out.frame
           own  == [mode |-> gsm.game.mode, interlace |-> i, frame |-> f]
<1>2. /\ gsm' = UpdateScaling(s)
      /\ \/ /\ pc' = pc
            /\ gs' = [gs EXCEPT !.display = d, !.mode.interlace = n, !.mode.frame = e]
         \/ pc' = "trap" /\ gs' = gs
  BY <1>1, Zenon
<1>3. /\ pc = "title" /\ gs.trap /\ PictureTyped /\ gsm.flags.video \in KnownVideoArgs
      /\ DOMAIN title' = DOMAIN title /\ title'.wanted = title.wanted /\ title'.own = own
  <2>1. pc = "title" /\ gs.trap /\ PictureTyped /\ gsm.flags.video \in KnownVideoArgs
    BY Zenon DEF WriteSmode2, Running, PictureInv
  <2>2. title' = [title EXCEPT !.own = own]
    BY <1>1, Zenon
  <2> HIDE DEF own
  <2>3. DOMAIN title' = DOMAIN title /\ title'.wanted = title.wanted /\ title'.own = own
    BY <2>1, <2>2 DEF PictureTyped
  <2> QED BY <2>1, <2>3
<1>4. /\ IsMode(game) /\ game.interlace = i /\ game.frame = f /\ game.mode = gsm.game.mode
      /\ IsMode(out) /\ out.mode = gsm.out.mode /\ out.interlace = gsm.out.interlace
      /\ out.frame = IF i THEN f ELSE gsm.out.frame
  BY <1>3 DEF PictureTyped, IsMode, ModeFields
<1>5. /\ DOMAIN s = StateFields /\ s.game = game /\ s.out = out /\ s.last = gsm.last
      /\ s.flags = gsm.flags
  <2>1. /\ DOMAIN g1 = StateFields /\ g1.game = [gsm.game EXCEPT !.interlace = i]
        /\ g1.out = gsm.out /\ g1.last = gsm.last /\ g1.flags = gsm.flags
    BY <1>3 DEF PictureTyped, StateFields
  <2> HIDE DEF g1
  <2>2. /\ DOMAIN g2 = StateFields /\ g2.game = [g1.game EXCEPT !.frame = f]
        /\ g2.out = gsm.out /\ g2.last = gsm.last /\ g2.flags = gsm.flags
    BY <2>1 DEF StateFields
  <2>3. g2.game = game
    BY <2>1, <2>2
  <2> HIDE DEF g2
  <2>4. s = [g2 EXCEPT !.out = out]
    BY <2>2
  <2> HIDE DEF s, out
  <2> QED BY <2>2, <2>3, <2>4 DEF StateFields
<1> HIDE DEF s, game, out, d, n, e
<1>6. /\ DOMAIN gsm' = StateFields /\ gsm'.flags = gsm.flags /\ gsm'.last = gsm.last
      /\ IsMode(gsm'.game) /\ IsMode(gsm'.out) /\ SameMode(gsm'.game, game) /\ SameMode(gsm'.out, out)
  BY <1>2, <1>4, <1>5, ScalingTyped
<1>9. OwnMode'
  BY <1>2, <1>3, <1>4, <1>6 DEF OwnMode, SameMode, ModeOf, TitlePcs, own
<1>7. CASE pc' = "trap" /\ gs' = gs
  <2>1. PictureTyped'
    BY <1>3, <1>6, <1>7 DEF PictureTyped
  <2> QED BY <1>7, <1>9, <2>1 DEF PictureInv, Running, TitlePcs
<1>8. CASE pc' = pc /\ gs' = [gs EXCEPT !.display = d, !.mode.interlace = n, !.mode.frame = e]
  <2> DEFINE h1 == [gs EXCEPT !.display = d]
             h2 == [h1 EXCEPT !.mode.interlace = n]
  <2>1. gs' = [h2 EXCEPT !.mode.frame = e]
    BY <1>8
  <2>2. /\ DOMAIN h1 = DOMAIN gs /\ h1.display = d /\ h1.mode = gs.mode /\ h1.trap = gs.trap
    BY <1>3 DEF PictureTyped
  <2> HIDE DEF h1
  <2>3. /\ DOMAIN h2 = DOMAIN gs /\ h2.display = d /\ h2.trap = gs.trap
        /\ h2.mode = [gs.mode EXCEPT !.interlace = n]
    BY <1>3, <2>2 DEF PictureTyped
  <2> HIDE DEF h2
  <2>4. /\ DOMAIN gs' = DOMAIN gs /\ gs'.display = d /\ gs'.trap = gs.trap
        /\ gs'.mode = [h2.mode EXCEPT !.frame = e]
    BY <1>3, <2>1, <2>3 DEF PictureTyped
  <2>5. /\ DOMAIN gs'.mode = {"mode", "interlace", "frame"}
        /\ gs'.mode.mode = gs.mode.mode /\ gs'.mode.interlace = n /\ gs'.mode.frame = e
    BY <1>3, <2>3, <2>4 DEF PictureTyped
  <2>6. DOMAIN d = Circuits
    BY DEF d, Rescaled
  <2>7. PictureTyped'
    BY <1>3, <1>6, <2>4, <2>5, <2>6 DEF PictureTyped
  <2>8. ASSUME InCharge' PROVE Shown'
    <3>1. InCharge
      BY <1>4, <1>6, <2>4, <2>8 DEF InCharge, SameMode
    <3>2. Shown
      BY <1>3, <3>1 DEF PictureInv, Running
    <3>3. Fits(s)
      BY <1>4, <1>5, <3>2 DEF Shown, Fits
    <3>4. Fits(gsm') /\ Scaled(gsm')
      BY <1>2, <1>5, <3>3, ScalingIs
    <3>5. gs'.mode = ModeOf(gsm'.out)
      <4>1. gs'.mode.mode = gsm'.out.mode
        BY <1>4, <1>6, <2>5, <3>2 DEF Shown, ModeOf, SameMode
      <4>2. gs'.mode = [mode |-> gs'.mode.mode, interlace |-> n, frame |-> e]
        <5>1. gs.mode = [mode |-> gs.mode.mode, interlace |-> gs.mode.interlace, frame |-> gs.mode.frame]
          BY <3>2 DEF Shown, ModeOf
        <5> QED BY <2>3, <2>4, <2>5, <5>1
      <4> QED BY <4>1, <4>2 DEF ModeOf, n, e
    <3>6. ASSUME NEW c \in Circuits, title'.wanted[c] # NoPicture
          PROVE  /\ title'.wanted[c] \in Pictures /\ gsm'.last[c] = title'.wanted[c]
                 /\ gs'.display[c] = ModDisplay(gsm', title'.wanted[c])
      <4>1. title.wanted[c] \in Pictures /\ gsm.last[c] = title.wanted[c]
        BY <1>3, <3>2, <3>6 DEF Shown
      <4>2. d[c] = ModDisplay(gsm', gsm'.last[c])
        BY <1>3, <1>6, <3>6, <4>1 DEF d, Rescaled
      <4> QED BY <1>3, <1>6, <2>4, <4>1, <4>2
    <3> QED BY <3>4, <3>5, <3>6 DEF Shown
  <2> QED BY <1>3, <1>6, <1>8, <1>9, <2>4, <2>7, <2>8 DEF PictureInv, TitlePcs, Running
<1> QED BY <1>2, <1>7, <1>8

LEMMA EgsmPicture == ASSUME PictureInv, EgsmNext PROVE PictureInv'
<1>0. pc = "title" /\ PictureTyped
  BY EgsmRuns DEF PictureInv
<1>1. ASSUME NEW c \in Circuits, WriteDisplayRaw(c) PROVE PictureInv'
  <2>1. PICK a, b : /\ gsm' = gsm
                    /\ gs' = [gs EXCEPT !.display = [gs.display EXCEPT ![c] = a], !.trap = FALSE]
                    /\ title' = [title EXCEPT !.wanted = [title.wanted EXCEPT ![c] = b]]
                    /\ pc' = pc
    BY <1>1 DEF WriteDisplayRaw, consoleVars
  <2>2. PictureTyped' /\ ~gs'.trap /\ title'.own = title.own
    BY <1>0, <2>1 DEF PictureTyped
  <2> QED BY <1>0, <2>1, <2>2, RawPicture DEF TitlePcs
<1>2. CASE WriteSmode2Raw
  <2>1. /\ gsm' = gsm /\ gs' = [gs EXCEPT !.mode = ModeOf(NoMode), !.trap = FALSE]
        /\ title' = title /\ pc' = pc
    BY <1>2, Zenon DEF WriteSmode2Raw, consoleVars
  <2>2. PictureTyped' /\ ~gs'.trap
    BY <1>0, <2>1 DEF PictureTyped, ModeOf
  <2> QED BY <1>0, <2>1, <2>2, RawPicture DEF TitlePcs
<1>3. CASE StrangeBranch
  <2>1. gsm' = gsm /\ gs' = [gs EXCEPT !.trap = FALSE] /\ title' = title /\ pc' = "trap"
    BY <1>3, Zenon DEF StrangeBranch
  <2>2. PictureTyped' /\ ~gs'.trap
    BY <1>0, <2>1 DEF PictureTyped
  <2> QED BY <1>0, <2>1, <2>2, RawPicture DEF TitlePcs
<1>4. CASE AckCsrRaw
  <2>1. /\ gsm' = gsm /\ gs' = [gs EXCEPT !.vsint = FALSE, !.trap = FALSE]
        /\ title' = [title EXCEPT !.lost = TRUE] /\ pc' = pc
    BY <1>4, Zenon DEF AckCsrRaw, consoleVars
  <2>2. PictureTyped' /\ ~gs'.trap /\ title'.own = title.own
    BY <1>0, <2>1 DEF PictureTyped
  <2> QED BY <1>0, <2>1, <2>2, RawPicture DEF TitlePcs
<1>5. CASE Vsync \/ ReadCsr \/ AckCsr
  <2>1. pc' = pc
    BY <1>5, Zenon DEF Vsync, ReadCsr, AckCsr, consoleVars
  <2>2. \/ gsm' = gsm \/ \E p : gsm' = [gsm EXCEPT !.prev = p]
        \/ gsm' = [Flip(gsm) EXCEPT !.prev = TRUE]
    BY <1>5, Zenon DEF Vsync, ReadCsr, AckCsr
  <2>3. gs' = gs \/ \E v : gs' = [gs EXCEPT !.vsint = v]
    BY <1>5, Zenon DEF Vsync, ReadCsr, AckCsr
  <2>4. \/ title' = title
        \/ \E e : title' = [title EXCEPT !.edge = e]
        \/ \E a : title' = [title EXCEPT !.field = a, !.edge = FALSE, !.lost = FALSE]
    <3>1. CASE Vsync \/ AckCsr
      BY <3>1, Zenon DEF Vsync, AckCsr
    <3>2. CASE ReadCsr
      BY <3>2, Zenon DEF ReadCsr
    <3> QED BY <1>5, <3>1, <3>2
  <2>5. /\ DOMAIN gsm' = StateFields
        /\ \A x \in {"flags", "game", "out", "last", "wide", "tall", "high", "vckDiv"} : gsm'[x] = gsm[x]
    BY <1>0, <2>2 DEF PictureTyped, StateFields, Flip
  <2>6. DOMAIN gs' = DOMAIN gs /\ gs'.trap = gs.trap /\ gs'.mode = gs.mode /\ gs'.display = gs.display
    BY <1>0, <2>3 DEF PictureTyped
  <2>7. DOMAIN title' = DOMAIN title /\ title'.wanted = title.wanted /\ title'.own = title.own
    BY <1>0, <2>4 DEF PictureTyped
  <2>8. PictureTyped'
    BY <1>0, <2>5, <2>6, <2>7 DEF PictureTyped
  <2> QED BY <2>1, <2>5, <2>6, <2>7, <2>8, QuietPicture
<1>6. CASE Smode2Discarded
  <2>1. gsm' = gsm /\ gs' = gs /\ pc' = pc /\ title' = [title EXCEPT !.own = ModeOf(NoMode)]
    BY <1>6, Zenon DEF Smode2Discarded, consoleVars
  <2>2. DOMAIN title' = DOMAIN title /\ title'.wanted = title.wanted /\ title'.own.mode = "none"
    BY <1>0, <2>1 DEF PictureTyped, ModeOf, NoMode
  <2>3. PictureTyped'
    BY <1>0, <2>1, <2>2 DEF PictureTyped
  <2> QED BY <2>1, <2>2, <2>3, QuietPicture
<1> QED BY <1>1, <1>2, <1>3, <1>4, <1>5, <1>6, SetGsCrtPicture, DisplayPicture, DiscardedPicture,
           Smode2Picture DEF EgsmNext

LEMMA MenuGoes == ASSUME MenuNext PROVE pc' \in MenuPcs \cup {"exit", "rom", "l_main"}
<1>1. CASE LoadConfig \/ LaunchOSDSYS \/ LoadConfigHdd
  BY <1>1 DEF LoadConfig, LaunchOSDSYS, LoadConfigHdd, MenuPcs
<1>2. CASE LaunchHddOsd
  BY <1>2 DEF LaunchHddOsd, MenuPcs
<1>3. CASE HandleMenuEntry \/ LaunchUnlisted \/ LaunchPayload
  <2>1. \E item : LaunchItem(item)
    BY <1>3 DEF HandleMenuEntry, LaunchUnlisted, LaunchPayload
  <2> QED BY <2>1 DEF LaunchItem, LauncherMain
<1>4. CASE OsdLeaves
  BY <1>4 DEF OsdLeaves
<1> QED BY <1>1, <1>2, <1>3, <1>4 DEF MenuNext

LEMMA PictureStep == PictureInv /\ [Next]_vars => PictureInv'
<1> SUFFICES ASSUME PictureInv, [Next]_vars PROVE PictureInv'
  OBVIOUS
<1>1. CASE MbrNext /\ UNCHANGED <<launcherVars, menu, gsmVars>>
  BY <1>1, MbrRuns, MbrGoes, OthersPicture DEF MbrPcs, StartPcs, TitlePcs
<1>2. CASE LauncherNext /\ UNCHANGED <<mbrVars, menu, gsmVars>>
  BY <1>2, LauncherRuns, LauncherGoes, OthersPicture DEF LauncherPcs, StartPcs, TitlePcs
<1>3. CASE LoaderNext /\ UNCHANGED <<mbrVars, launcherVars, menu, gsmVars>>
  BY <1>3, LoaderRuns, LoaderGoes, OthersPicture DEF LoaderPcs, TitlePcs
<1>4. CASE MenuNext /\ UNCHANGED <<asked, handed, mbrVars, gsmVars>>
  BY <1>4, MenuRuns, MenuGoes, OthersPicture DEF MenuPcs, TitlePcs
<1>5. CASE EgsmNext
  BY <1>5, EgsmPicture
<1>6. CASE StartMenu \/ StartLauncher
  <2>1. pc = "app" /\ UNCHANGED gsmVars
    BY <1>6, Zenon DEF StartMenu, StartLauncher
  <2>2. pc' \in {"m_config", "m_sysconf", "m_recovery", "l_main"}
    BY <1>6 DEF StartMenu, EnterOSDMenu, EnterHOSDMenu, StartLauncher, LauncherMain
  <2> QED BY <2>1, <2>2, OthersPicture DEF TitlePcs
<1>7. CASE StartTitle
  BY <1>7, TitlePicture
<1>8. CASE UNCHANGED vars
  <2>1. UNCHANGED gsmVars /\ pc' = pc
    BY <1>8, Zenon DEF vars, consoleVars
  <2> QED BY <2>1, OthersPicture, Zenon
<1> QED BY <1>1, <1>2, <1>3, <1>4, <1>5, <1>6, <1>7, <1>8, Zenon DEF Next

(* While the handler is in charge, a picture that suits the title's own    *)
(* mode fills the forced mode as it filled that one, for any titles, eGSM  *)
(* options, modes and pictures: no size and no position leaves its field   *)
(* of the register (mod_DISPLAY(), egsm.c:131-173, and el2_c_handler(),    *)
(* egsm.c:386-411).                                                        *)
THEOREM ShownAsMeantAlways == Spec => []ShownAsMeant
<1>1. PictureInv => ShownAsMeant
  BY ShownIsMeant
<1> QED BY <1>1, PictureInit, PictureStep, PTL DEF Spec
=============================================================================
