------------------------------- MODULE Device -------------------------------
(***************************************************************************)
(* The block device of src/p4/device.c: DevBlocks blocks of Blk bytes,     *)
(* written and read in whole blocks.  A disk is a function from offsets to *)
(* bytes, a buffer a sequence of bytes.                                    *)
(***************************************************************************)
EXTENDS Bytes

CONSTANT DevBlocks

ASSUME DeviceAssumption == DevBlocks \in Nat

DevSize == DevBlocks * Blk

DiskType == [0 .. DevSize - 1 -> Byte]

(* The conditions that device_read() asserts and that make device_write()  *)
(* end the process when they do not hold.                                  *)
OnDevice(offset, len) ==
  /\ offset % Blk = 0
  /\ len % Blk = 0
  /\ offset + len <= DevSize

(* Mutant of device_write: one byte too early. *)
WriteOneEarly(disk, buf, offset) ==
  [i \in 0 .. DevSize - 1 |->
     IF i >= offset - 1 /\ i < offset - 1 + Len(buf)
     THEN buf[i - offset + 2] ELSE disk[i]]

device_write(disk, buf, offset) ==
  [i \in 0 .. DevSize - 1 |->
     IF i >= offset /\ i < offset + Len(buf) THEN buf[i - offset + 1]
                                             ELSE disk[i]]

(* One block, which is all that logfs.c ever reads at once. *)
device_read(disk, offset) == [k \in 1 .. Blk |-> disk[offset + k - 1]]
=============================================================================
