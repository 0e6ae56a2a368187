------------------------------- MODULE MCBoot -------------------------------
EXTENDS Boot
\* Partitions that boot an embedded program, a file of theirs, a card, the
\* disc; with every option of SYSTEM.CNF.
Cnf(boot, ioprp, dev9, skip, args) ==
  [boot |-> boot, ioprp |-> ioprp, dev9 |-> dev9, skip |-> skip, args |-> args]
MCPatinfos ==
  {Cnf("embedded", TRUE, "HDD", FALSE, <<>>), Cnf("embedded", FALSE, "All", TRUE, <<"arg">>),
   Cnf("pfs", FALSE, "None", TRUE, <<"arg", "-psxmode">>), Cnf("mc?", FALSE, "All", FALSE, <<>>),
   Cnf("xfrom", FALSE, "HDD", FALSE, <<"-psxmode">>), Cnf("cdrom", FALSE, "All", FALSE, <<>>)}

Gsm(video, comp, old) == [video |-> video, comp |-> comp, old |-> old]
\* Every video mode, both ways of flipping FIELD by vertical syncs, a console
\* that is too old for 576p, and a mode eGSM does not know.
MCGsmArgs ==
  {Gsm("fp1", "", FALSE), Gsm("fp2", "", TRUE), Gsm("1080ix1", "", FALSE),
   Gsm("1080ix2", "", FALSE), Gsm("1080ix3", "", FALSE), Gsm("fp1", "1", FALSE),
   Gsm("1080ix1", "2", FALSE), Gsm("480p", "1", FALSE)}
\* A mode that is not supported only where no vertical syncs are followed.
MCGameModes(comp) == {"ntsc", "pal"} \cup (IF comp = "" THEN {"720p"} ELSE {})
\* 640 x 448 of an interlaced mode, and 640 x 224 of any.
MCPictures == {Sizes(4, 1, 2560, 448), Sizes(4, 1, 2560, 224)}
=============================================================================
