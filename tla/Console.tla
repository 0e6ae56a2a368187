------------------------------ MODULE Console ------------------------------
(***************************************************************************)
(* The machine the boot programs run on: one thread of control, the I/O    *)
(* processor with the drivers loaded on it, the single mount point pfs0:   *)
(* and the files of the console.  Whether a file or a partition exists is  *)
(* decided when it is looked at first, and stays as it was found.  The MBR *)
(* (module Mbr), the launcher (module Launcher) and the loader they leave  *)
(* the console to (module Loader) share this state.                        *)
(***************************************************************************)
EXTENDS Integers, Sequences, FiniteSets

VARIABLES
  pc,          \* where the running program is
  mounted,     \* partition on pfs0:, or "none"
  drivers,     \* devices that the loaded IOP modules serve
  exists       \* what is known of files and partitions

consoleVars == <<pc, mounted, drivers, exists>>

\* Where a file lives: the partition that has to be on pfs0:, or the device.
Home == [hosdsys |-> "system", hosdmenu |-> "system", osdboot |-> "system",
         xosd |-> "system", fsck |-> "system", dkwdrv |-> "system",
         dnas |-> "system", conf |-> "sysconf", pfs |-> "part",
         mc0 |-> "mc", mc1 |-> "mc", ata |-> "ata", xfrom |-> "xfrom",
         xconf |-> "xfrom", xdkwdrv |-> "xfrom", osdmenu |-> "xfrom",
         cnf0 |-> "mc", cnf1 |-> "mc", xcnf |-> "xfrom", hcnf |-> "sysconf",
         osdimage |-> "system", unit0 |-> "usb", usb0 |-> "usb",
         usb1 |-> "usb", udpfs |-> "udpfs"]

Files      == DOMAIN Home
Confs      == {"cnf0", "cnf1", "xcnf", "hcnf"}   \* OSDMENU.CNF
Partitions == {"system", "sysconf", "part"}
OnPfs(f)   == Home[f] \in Partitions
DeviceOf(f) == IF OnPfs(f) THEN "apa" ELSE Home[f]
Devices    == {"mc", "ata", "apa", "xfrom", "usb", "udpfs"}

Answer(yes) == IF yes THEN "yes" ELSE "no"

(* found says for each of some files or partitions whether it is there;    *)
(* the code finds the same whenever it looks again.                        *)
Look(found) ==
  /\ \A f \in DOMAIN found : exists[f] \in {"unknown", Answer(found[f])}
  /\ exists' = [f \in DOMAIN exists |->
       IF f \in DOMAIN found THEN Answer(found[f]) ELSE exists[f]]

\* Of one file only.
Only(f, there) == [g \in {f} |-> there]

\* fileXioMount() refuses a mount point that is in use.
CanMount(p, found) == mounted = "none" /\ "apa" \in drivers /\ found[p]

\* open() succeeds on the mounted partition or on a device with a driver.
Opens(f, found, at) ==
  /\ found[f]
  /\ DeviceOf(f) \in drivers
  /\ OnPfs(f) => at = Home[f]

ConsoleInit ==
  /\ mounted = "none"
  /\ drivers = {}
  /\ exists = [f \in Files \cup Partitions |-> "unknown"]

ConsoleTypeOK ==
  /\ mounted \in Partitions \cup {"none"}
  /\ drivers \subseteq Devices
  /\ exists \in [Files \cup Partitions -> {"unknown", "yes", "no"}]
=============================================================================
