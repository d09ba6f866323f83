------------------------------- MODULE DevFs -------------------------------
(***************************************************************************)
(* The device filesystem of src/system/kernel/src/fs/devfs.rs.             *)
(*                                                                         *)
(* Drivers install device files concurrently with install_minor_device:    *)
(* a minor number is taken from next_minor_device with an atomic           *)
(* fetch_update, then the entry is inserted into the minor_devices map     *)
(* under its mutex.  These are two steps: another installer or a reader    *)
(* can run between them.  A directory listing calls read_dir(ROOT, index)  *)
(* with index 0, 1, 2, ... until it returns None, taking the mutex anew   *)
(* on each call.                                                           *)
(*                                                                         *)
(* A registry entry is modelled by the installer (the driver) it belongs   *)
(* to; the name, file type and size it carries are left out.               *)
(***************************************************************************)
EXTENDS Naturals, Sequences, SequencesExt

CONSTANTS Installers,   \* drivers calling install_minor_device
          MaxMinor      \* DevFs::MAX_MINOR_DEVICE

\* ROOT_INODE
RootInode == 1

\* Mutant: next_minor_device starts at ROOT_INODE.
FirstMinorAtRoot == RootInode

\* DevFs::init: next_minor_device starts at 1 + ROOT_INODE.
FirstMinor == 1 + RootInode

None == 0

VARIABLES
    nextMinor,  \* DevFs.next_minor_device
    minor,      \* DevFs.minor_devices: minor number -> installer
    ipc,        \* where each installer is
    ino,        \* the minor number an installer obtained
    wpc,        \* the directory listing: "idle", "walk" or "done"
    windex,     \* the index of the next read_dir call
    listed,     \* what read_dir has returned so far
    before      \* the devices installed when the listing started

vars == <<nextMinor, minor, ipc, ino, wpc, windex, listed, before>>

(***************************************************************************)
(* Inode conversions and lookups.                                          *)
(***************************************************************************)
\* From<MinorDevNo> for INodeType: the inode is the minor number.
InodeOf(d) == d

\* TryFrom<INodeType> for MinorDevNo: accepted below MAX_MINOR_DEVICE.
MinorFromInode(v) == IF v < MaxMinor THEN v ELSE None

\* DevFs::get_file: the entry under the minor number, if any.
GetFile(d) == IF d \in DOMAIN minor THEN minor[d] ELSE None

\* DevFsDriver::open: decode the inode, look the entry up (NotFound: None).
Open(v) ==
    LET d == MinorFromInode(v) IN IF d = None THEN None ELSE GetFile(d)

\* DevFsDriver::find_file(ROOT_INODE, name): the inode of the first entry,
\* in key order, with that name (an entry's name is its driver's).
FindFile(name) ==
    LET ks == {k \in DOMAIN minor : minor[k] = name}
    IN IF ks = {} THEN None ELSE InodeOf(Min(ks))

\* DevFsDriver::stat: the root directory's metadata for ROOT_INODE, else
\* that of the entry under the inode.
Stat(v) == IF v = RootInode THEN "root" ELSE Open(v)

\* The map's values in key order, as BTreeMap::values() yields them.
Entries == SetToSortSeq(DOMAIN minor, <)

(***************************************************************************)
(* Actions.                                                                *)
(***************************************************************************)
Init ==
    /\ nextMinor = FirstMinor
    /\ minor = <<>>
    /\ ipc = [i \in Installers |-> "start"]
    /\ ino = [i \in Installers |-> None]
    /\ wpc = "idle" /\ windex = 0 /\ listed = <<>> /\ before = {}

\* Mutant: the exhaustion test lets MAX_MINOR_DEVICE itself be handed out.
AllocateUpToMax(i) ==
    /\ ipc[i] = "start"
    /\ IF nextMinor <= MaxMinor
       THEN /\ ino' = [ino EXCEPT ![i] = nextMinor]
            /\ nextMinor' = nextMinor + 1
            /\ ipc' = [ipc EXCEPT ![i] = "insert"]
       ELSE /\ ipc' = [ipc EXCEPT ![i] = "none"]
            /\ UNCHANGED <<ino, nextMinor>>
    /\ UNCHANGED <<minor, wpc, windex, listed, before>>

\* _next_minor_device_no: fetch_update increments the counter while it is
\* below MAX_MINOR_DEVICE and yields the old value; otherwise it fails and
\* install_minor_device returns None.
Allocate(i) ==
    /\ ipc[i] = "start"
    /\ IF nextMinor < MaxMinor
       THEN /\ ino' = [ino EXCEPT ![i] = nextMinor]
            /\ nextMinor' = nextMinor + 1
            /\ ipc' = [ipc EXCEPT ![i] = "insert"]
       ELSE /\ ipc' = [ipc EXCEPT ![i] = "none"]
            /\ UNCHANGED <<ino, nextMinor>>
    /\ UNCHANGED <<minor, wpc, windex, listed, before>>

\* minor_devices.lock().insert(dev_no, entry); return Some(dev_no).
Insert(i) ==
    /\ ipc[i] = "insert"
    /\ minor' = (ino[i] :> i) @@ minor
    /\ ipc' = [ipc EXCEPT ![i] = "done"]
    /\ UNCHANGED <<nextMinor, ino, wpc, windex, listed, before>>

\* A listing of the root directory begins.
WalkStart ==
    /\ wpc = "idle"
    /\ wpc' = "walk"
    /\ before' = DOMAIN minor
    /\ UNCHANGED <<nextMinor, minor, ipc, ino, windex, listed>>

\* Mutant: read_dir returns the entry after the index'th.
ReadDirSkipsFirst ==
    /\ wpc = "walk"
    /\ IF windex + 1 < Len(Entries)
       THEN /\ listed' = Append(listed, Entries[windex + 2])
            /\ windex' = windex + 1
            /\ UNCHANGED wpc
       ELSE /\ wpc' = "done"
            /\ UNCHANGED <<listed, windex>>
    /\ UNCHANGED <<nextMinor, minor, ipc, ino, before>>

\* read_dir(ROOT_INODE, index): the index'th value of the map, or None,
\* which ends the listing.
ReadDir ==
    /\ wpc = "walk"
    /\ IF windex < Len(Entries)
       THEN /\ listed' = Append(listed, Entries[windex + 1])
            /\ windex' = windex + 1
            /\ UNCHANGED wpc
       ELSE /\ wpc' = "done"
            /\ UNCHANGED <<listed, windex>>
    /\ UNCHANGED <<nextMinor, minor, ipc, ino, before>>

Next ==
    \/ \E i \in Installers : Allocate(i) \/ Insert(i)
    \/ WalkStart
    \/ ReadDir

Spec == Init /\ [][Next]_vars

(***************************************************************************)
(* Properties.                                                             *)
(***************************************************************************)
TypeOK ==
    /\ nextMinor \in FirstMinor..MaxMinor
    /\ ipc \in [Installers -> {"start", "insert", "done", "none"}]
    /\ ino \in [Installers -> {None} \cup (FirstMinor..MaxMinor)]
    /\ wpc \in {"idle", "walk", "done"}
    /\ listed \in Seq(DOMAIN minor)

\* Every installer that got Some(dev_no) back finds its device file by
\* name at the inode of that number, and opening or stat-ing that inode
\* reaches its own entry: the number passes TryFrom<INodeType>, is not the
\* root directory's inode, and no other installer's entry is under it.
InstalledDevicesOpen ==
    \A i \in Installers : ipc[i] = "done" =>
        LET v == FindFile(i) IN
        /\ v = InodeOf(ino[i])
        /\ Open(v) = i
        /\ Stat(v) = i

\* A finished listing of the root directory has shown every device file
\* that was installed when it began, although installers ran between its
\* read_dir calls.
ListingComplete ==
    wpc = "done" => before \subseteq ToSet(listed)
=============================================================================
