SPECIFICATION Spec
CONSTANTS
  Kinds = {"cdrom", "dvd", "$HOSDSYS", "$XOSD", "$OSDMENU", "$PSBBN", "mc?", "patinfo", "pfs", "ata"}
  ArgKinds = {"-gsm", "-noflags", "arg"}
  FlagNames = {"bbn", "dkwdrv"}
  Triggers = {"auto", "start"}
  Pressed = {"auto"}
  MaxLines = 3
  Patinfos <- MCPatinfos
  Targets = {"mc?", "usb?", "ata", "xfrom", "pfs", "patinfo", "cdrom", "rom", "bad"}
  MaxTargets = 2
  PartitionCnfs <- MCPatinfos
  GsmArgs <- MCGsmArgs
  Circuits = {1}
  GameModes <- MCGameModes
  Pictures <- MCPictures
INVARIANT AllTried
CHECK_DEADLOCK FALSE
