------------------------------ MODULE PciScan ------------------------------
(***************************************************************************)
(* Access to the PCI configuration space through the ports 0xCF8 and 0xCFC *)
(* and the search for a VirtIO device: src/virtio/pci.rs, and its use in   *)
(* kernel_main.  The host bridge, which decodes addresses, and the driver  *)
(* crate's enumerate_bus, which visits every function of every device of a *)
(* bus, are external.  Functions outside of Functions are absent.          *)
(***************************************************************************)
EXTENDS Naturals, FiniteSets

CONSTANTS
  Buses, Devices, Numbers,  \* of the functions that may be present
  Vendors,                  \* words that register 0 may hold
  VirtioVendors,            \* of these, the ones with vendor 0x1AF4
  Absent,                   \* the word read from an absent function
  Offsets,                  \* register offsets the driver uses
  Data                      \* words it writes

Functions == Buses \X Devices \X Numbers
Registers == {o \div 4 : o \in Offsets}

ASSUME PciAssumption ==
  /\ Buses \subseteq 0 .. 255 /\ Devices \subseteq 0 .. 31 /\ Numbers \subseteq 0 .. 7
  /\ Offsets \subseteq 0 .. 255 /\ 0 \in Offsets /\ 0 \in Numbers
  /\ VirtioVendors \subseteq Vendors /\ Absent \notin Vendors \union Data

VARIABLES
  config,   \* the configuration space: function to register to word
  visited,  \* functions the scan has looked at
  found,    \* what scan returned: a set of at most one function
  scan_pc,  \* "scan" or "done"
  written   \* history: the last word the driver wrote to an offset

pciVars == <<config, visited, found, scan_pc, written>>

(* Mutant of Address and of WriteAddress: the device is shifted by a bit   *)
(* too few.                                                                *)
AddressNarrow(f, offset) ==
  f[1] * 2^16 + f[2] * 2^10 + f[3] * 2^8 + (offset - (offset % 4))

(* The address packet, without its enable bit, of read_word and, built     *)
(* once more, of write_word.                                               *)
Address(f, offset) ==
  f[1] * 2^16 + f[2] * 2^11 + f[3] * 2^8 + (offset - (offset % 4))

WriteAddress(f, offset) == Address(f, offset)

(* How the host bridge reads an address.                                   *)
FunctionOf(a) == <<(a \div 2^16) % 256, (a \div 2^11) % 32, (a \div 2^8) % 8>>
RegisterOf(a) == (a % 256) \div 4

(* read_word, through both ports.                                          *)
read_word(f, offset) ==
  LET a == Address(f, offset)
  IN IF FunctionOf(a) \in Functions THEN config[FunctionOf(a)][RegisterOf(a)]
     ELSE Absent

(* The machine: any functions, each with the registers 0 set.              *)
PciInit ==
  /\ config \in [Functions -> {[r \in Registers |-> IF r = 0 THEN v ELSE Absent] :
                                 v \in Vendors \union {Absent}}]
  /\ visited = {} /\ found = {} /\ scan_pc = "scan"
  /\ written = [o \in Offsets |-> Absent]

(* Functions in the order of the scan.                                     *)
Before(f, g) ==
  \/ f[1] < g[1]
  \/ f[1] = g[1] /\ f[2] < g[2]
  \/ f[1] = g[1] /\ f[2] = g[2] /\ f[3] < g[3]

(* The DeviceFunction that scan returns for a VirtIO header of f.          *)
Result(f) == <<f[1], f[2], 0>>

(* The next turn of the loops in scan.                                     *)
ScanNext(f) ==
  /\ scan_pc = "scan"
  /\ f \notin visited /\ \A g \in Functions : Before(g, f) => g \in visited
  /\ IF read_word(f, 0) \in VirtioVendors
       THEN found' = {Result(f)} /\ scan_pc' = "done" /\ UNCHANGED visited
       ELSE visited' = visited \union {f} /\ UNCHANGED <<found, scan_pc>>
  /\ UNCHANGED <<config, written>>

ScanEnd ==
  /\ scan_pc = "scan" /\ visited = Functions
  /\ scan_pc' = "done"
  /\ UNCHANGED <<config, visited, found, written>>

(* write_word, by the driver that kernel_main creates for the device.      *)
WriteWord(f, offset, word) ==
  LET a == WriteAddress(f, offset)
  IN /\ scan_pc = "done" /\ read_word(f, 0) \in VirtioVendors
     /\ config' = [config EXCEPT ![FunctionOf(a)][RegisterOf(a)] = word]
     /\ written' = [o \in Offsets |-> IF o \div 4 = offset \div 4 THEN word ELSE written[o]]
     /\ UNCHANGED <<visited, found, scan_pc>>

ScanStep  == (\E f \in Functions : ScanNext(f)) \/ ScanEnd
WriteStep == \E f \in found, o \in Offsets \ {0, 1, 2, 3}, w \in Data : WriteWord(f, o, w)

PciSpec == PciInit /\ [][ScanStep \/ WriteStep]_pciVars

-----------------------------------------------------------------------------
Virtio == {f \in Functions : config[f][0] \in VirtioVendors}

(***************************************************************************)
(* scan misses no device: it returns none only if no function of any       *)
(* device is a VirtIO one, and otherwise the first device that has one.    *)
(***************************************************************************)
ScanFindsFirst ==
  scan_pc # "scan" =>
    /\ found = {} <=> Virtio = {}
    /\ \A r \in found : \E f \in Virtio :
         /\ f[1] = r[1] /\ f[2] = r[2]
         /\ \A g \in Virtio : ~Before(g, f)

(***************************************************************************)
(* The address packet reaches its register and no other: what the driver   *)
(* wrote is read back at every offset of the same word, and its writes     *)
(* change no other function and not the identification of its own.         *)
(***************************************************************************)
WritesHitTheirRegister ==
  /\ \A f \in found, o \in Offsets :
       written[o] # Absent => config[f][o \div 4] = written[o]
  /\ \A f \in Functions, r \in Registers :
       f \notin found /\ r # 0 => config[f][r] = Absent
  /\ \A f \in Functions : config[f][0] \in Vendors \union {Absent}
=============================================================================
