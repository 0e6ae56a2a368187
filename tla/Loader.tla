------------------------------- MODULE Loader -------------------------------
(***************************************************************************)
(* Leaving one program for another.  loadELF() (src/common/src/loader.c)   *)
(* turns its options into arguments for the embedded loader and jumps to   *)
(* it; the loader (src/utils/loader/src/loader.c) parses the last argument *)
(* letter by letter, taking values off the end of the list, mounts the     *)
(* partition, loads the file, powers the expansion bay down and starts the *)
(* program.  When it fails there is nothing left to return to.             *)
(***************************************************************************)
EXTENDS Console, SequencesExt

VARIABLES
  asked,       \* the options loadELF() was given
  handed,      \* the arguments of the loader
  bay          \* power of the expansion bay: "on", "idle" (disks), "off"

loaderVars == <<asked, handed, bay>>

(* LoadOptions.  file: what argv[0] names.  checked is not in the code: it *)
(* says that the caller has opened the file before.                        *)
Options(file, checked) ==
  [file |-> file, args |-> <<>>, elf |-> FALSE, ioprp |-> FALSE, gsm |-> FALSE,
   dev9 |-> "All", skip |-> FALSE, checked |-> checked]

If(cond, s) == IF cond THEN s ELSE <<>>

\* What the SYSTEM.CNF of a partition may say; a -patinfo ending its arguments
\* is for the launcher and counts as said to that.
PartitionCnf ==
  [boot : {"embedded", "pfs", "mc?", "ata", "xfrom", "cdrom"}, ioprp : BOOLEAN,
   dev9 : {"All", "HDD", "None"}, skip : BOOLEAN,
   args : {<<>>, <<"-psxmode">>, <<"arg">>, <<"arg", "-psxmode">>}]

\* parsePATINFO(): the options that it makes of that.
PatinfoOptions(p, file, checked, args) ==
  [Options(file, checked) EXCEPT !.elf = (p.boot = "embedded"), !.ioprp = p.ioprp,
                                 !.dev9 = p.dev9, !.skip = p.skip, !.args = args]

\* The letters in another order than the values.
LettersSwapped(o) ==
  If(o.skip, <<"A">>)
    \o If(o.dev9 = "HDD", <<"N">>) \o If(o.dev9 = "None", <<"D">>)
    \o If(o.elf, <<"E">>) \o If(o.ioprp, <<"I">>) \o If(o.gsm, <<"G">>)

(* The argument list that loadELF() builds: the letters of the last one,   *)
(* and the values put before it.                                           *)
Letters(o) ==
  If(o.skip, <<"A">>)
    \o If(o.dev9 = "HDD", <<"N">>) \o If(o.dev9 = "None", <<"D">>)
    \o If(o.ioprp, <<"I">>) \o If(o.elf, <<"E">>) \o If(o.gsm, <<"G">>)
Values(o) ==
  If(o.elf, <<"elf">>) \o If(o.ioprp, <<"ioprp">>) \o If(o.gsm, <<"gsm">>)
BuildArgs(o) == [list |-> <<o.file>> \o o.args \o Values(o), la |-> Letters(o)]

(* The loader's reading of one letter: I, E and G take the argument that   *)
(* is then the last.  What was not handed over is "none".                  *)
Take(r, what) == [r EXCEPT ![what] = Last(r.list), !.list = Front(r.list)]
ReadLetter(r, c) ==
  IF c = "A" THEN [r EXCEPT !.skip = TRUE]
  ELSE IF c = "N" THEN [r EXCEPT !.dev9 = "HDD"]
  ELSE IF c = "D" THEN [r EXCEPT !.dev9 = "None"]
  ELSE IF c = "I" THEN Take(r, "ioprp")
  ELSE IF c = "E" THEN Take(r, "elf")
  ELSE Take(r, "gsm")
Unread(list) ==
  [list |-> list, elf |-> "none", ioprp |-> "none", gsm |-> "none", dev9 |-> "All", skip |-> FALSE]
ReadArgs(a) ==
  LET read[n \in 0 .. Len(a.la)] ==
        IF n = 0 THEN Unread(a.list) ELSE ReadLetter(read[n - 1], a.la[n])
  IN read[Len(a.la)]

\* What the loader has to have read when it was asked for o.
Meant(o) ==
  [list |-> <<o.file>> \o o.args, elf |-> Answer(o.elf), ioprp |-> Answer(o.ioprp),
   gsm |-> Answer(o.gsm), dev9 |-> o.dev9, skip |-> o.skip]
Heard(r) ==
  [r EXCEPT !.elf = Answer(@ = "elf"), !.ioprp = Answer(@ = "ioprp"), !.gsm = Answer(@ = "gsm")]

\* loadELF(): ExecPS2() does not come back.
LoadELF(o) ==
  /\ pc' = "loader"
  /\ asked' = o
  /\ handed' = BuildArgs(o)
  /\ UNCHANGED bay

Read == ReadArgs(handed)
Named == Head(Read.list)

(* The loader's mountPFS() comes before the memory is cleared, but its     *)
(* failure ends the program all the same.                                  *)
LoaderMount ==
  /\ pc = "loader"
  /\ \E there \in BOOLEAN :
       LET mounts == Read.elf = "none" /\ Named \in Files /\ OnPfs(Named)
           p      == Home[Named]
       IN IF ~mounts
            THEN pc' = "loading" /\ there /\ UNCHANGED <<mounted, exists>>
            ELSE /\ Look(Only(p, there))
                 /\ IF CanMount(p, Only(p, there))
                      THEN pc' = "loading" /\ mounted' = p
                      ELSE pc' = "dead" /\ UNCHANGED mounted
  /\ UNCHANGED <<drivers, asked, handed, bay>>

PowerOf(type) == IF type = "All" THEN "off" ELSE IF type = "HDD" THEN "idle" ELSE "on"

(* loadELFFromFile() and loadEmbeddedELF(): unmount, power down, start.    *)
(* The loader is built without IOPRP images, and fails on one.             *)
LoaderStart ==
  /\ pc = "loading"
  /\ \E there \in BOOLEAN :
       /\ IF Read.elf = "none" /\ Named \in Files
            THEN Look(Only(Named, there)) ELSE there /\ UNCHANGED exists
       /\ IF Read.elf = "none" /\ Named \in Files /\ ~Opens(Named, Only(Named, there), mounted)
            THEN pc' = "dead" /\ UNCHANGED <<mounted, bay>>
            ELSE /\ pc' = IF Read.ioprp # "none" THEN "dead" ELSE "app"
                 /\ mounted' = "none"
                 /\ bay' = PowerOf(Read.dev9)
  /\ UNCHANGED <<drivers, asked, handed>>

LoaderInit ==
  /\ asked = Options("none", FALSE)
  /\ handed = BuildArgs(Options("none", FALSE))
  /\ bay = "on"

LoaderNext == LoaderMount \/ LoaderStart

LoaderTypeOK ==
  /\ asked.file \in Files \cup {"disc", "ps1vn", "part", "kelf", "none"}
  /\ asked.dev9 \in {"All", "HDD", "None"}
  /\ bay \in {"on", "idle", "off"}

---------------------------------------------------------------------------
(* The loader reads from its arguments the options loadELF() was given,    *)
(* though builder and reader are separate programs that agree only on the  *)
(* order of letters and values (loader.c:57-126 and the loader's           *)
(* loader.c:121-157).                                                      *)
LoaderAgrees == pc = "loader" => Heard(Read) = Meant(asked)
=============================================================================
