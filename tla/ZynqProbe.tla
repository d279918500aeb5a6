------------------------------ MODULE ZynqProbe ------------------------------
(***************************************************************************)
(* The life of the Zynq driver's device: sha256_probe and sha256_remove    *)
(* (hsha256.c) around the file operations of ZynqDriver.  Probe climbs a   *)
(* ladder of resources, any of which may be refused; its error labels and  *)
(* remove climb down again.                                                *)
(***************************************************************************)
EXTENDS ZynqDriver

CONSTANTS
  Faults,      \* the resources that may be refused, and how users misbehave:
               \* "early" opens the node before probe has returned, "unbind"
               \* removes the device while it is open
  MaxProbes    \* bound: calls of probe

VARIABLES
  going,       \* "up" in probe, "down" at its error labels and in remove,
               \* "bound" after a successful probe, "unbound", "oops"
  rung,        \* the rung of Ladder that is next
  held,        \* how often each resource is held
  probes       \* calls of probe so far

probeVars == <<going, rung, held, probes>>
allVars == <<vars, probeVars>>

(* In the order of sha256_probe: the driver's data, the DMA channel, the   *)
(* device number, the character device, its class, the device node, the    *)
(* claim on the registers' addresses and their mapping.                    *)
Ladder ==
  <<"drv_data", "chan", "chrdev", "cdev", "class", "node", "region", "unit">>

Count(r, n) == held' = [held EXCEPT ![r] = @ + n]

InitProbe ==
  /\ Init
  /\ going = "unbound" /\ rung = 1 /\ probes = 0
  /\ held = [r \in Range(Ladder) |-> 0]

-----------------------------------------------------------------------------
(* sha256_probe. *)
Probe ==
  /\ going = "unbound" /\ probes < MaxProbes
  /\ going' = "up" /\ rung' = 1 /\ probes' = probes + 1
  /\ UNCHANGED <<held, vars>>

(* A device without a memory resource: probe returns at once. *)
NoResource ==
  /\ "mem" \in Faults
  /\ going = "unbound" /\ probes < MaxProbes
  /\ probes' = probes + 1
  /\ UNCHANGED <<going, rung, held, vars>>

(* A resource is had.  The driver's data come from kmalloc and only inited *)
(* is set; busy is whatever it was, until a write sets it.  device_create  *)
(* needs a class.                                                          *)
Acquire ==
  /\ going = "up" /\ rung \in DOMAIN Ladder
  /\ Ladder[rung] = "node" => held["class"] = 1
  /\ Count(Ladder[rung], 1)
  /\ rung' = rung + 1
  /\ IF Ladder[rung] = "drv_data"
     THEN inited' = FALSE ELSE UNCHANGED inited
  /\ UNCHANGED <<going, probes, procVars, busy, tx_buf, hwVars>>

(* Mutant of ErrLabel: the label of the rung that was refused. *)
ErrLabelSame(r) == r

(* Where the error labels are entered when rung r is refused. *)
ErrLabel(r) == r - 1

AcquireFails ==
  /\ going = "up" /\ rung \in DOMAIN Ladder
  /\ \/ Ladder[rung] \in Faults \ {"chan", "class"}
     \/ Ladder[rung] = "node" /\ held["class"] = 0
  /\ going' = "down" /\ rung' = ErrLabel(rung)
  /\ UNCHANGED <<held, probes, vars>>

(* dma_request_chan reports a failure by an error pointer, but it is       *)
(* compared with NULL; the message with the channel's name dereferences    *)
(* it, and the kernel kills the task that probes.                          *)
ChanFails ==
  /\ going = "up" /\ rung \in DOMAIN Ladder
  /\ Ladder[rung] = "chan" /\ "chan" \in Faults
  /\ going' = "oops"
  /\ UNCHANGED <<rung, held, probes, vars>>

(* The result of class_create is not looked at; device_create refuses an   *)
(* error pointer.                                                          *)
ClassFails ==
  /\ going = "up" /\ rung \in DOMAIN Ladder
  /\ Ladder[rung] = "class" /\ "class" \in Faults
  /\ rung' = rung + 1
  /\ UNCHANGED <<going, held, probes, vars>>

ProbeDone ==
  /\ going = "up" /\ rung > Len(Ladder)
  /\ going' = "bound"
  /\ UNCHANGED <<rung, held, probes, vars>>

(* The error labels and sha256_remove, which release in the same order.    *)
(* class_destroy ignores an error pointer; dma_release_channel stops what  *)
(* is under way on the channel.                                            *)
ReleaseRung ==
  /\ going = "down" /\ rung > 0
  /\ IF Ladder[rung] = "class" /\ held["class"] = 0
     THEN UNCHANGED held
     ELSE Count(Ladder[rung], -1)
  /\ rung' = rung - 1
  /\ IF Ladder[rung] = "chan"
     THEN dma' = << >> /\ pushed' = 0 /\ irq' = FALSE
     ELSE UNCHANGED <<dma, pushed, irq>>
  /\ UNCHANGED <<going, probes, procVars, drvVars, cb, core>>

Unbound ==
  /\ going = "down" /\ rung = 0
  /\ going' = "unbound"
  /\ UNCHANGED <<rung, held, probes, vars>>

(* The kernel does not unload the module of an open file. *)
RemoveDevice ==
  /\ going = "bound"
  /\ pc = "closed" \/ "unbind" \in Faults
  /\ going' = "down" /\ rung' = Len(Ladder)
  /\ UNCHANGED <<held, probes, vars>>

(* The node is there to be opened; users wait until the probe is over. *)
OpenNode ==
  /\ held["node"] = 1
  /\ going = "bound" \/ "early" \in Faults
  /\ Open
  /\ UNCHANGED probeVars

FileOperation == Running /\ UNCHANGED probeVars

NextProbe ==
  \/ Probe \/ NoResource \/ Acquire \/ AcquireFails \/ ChanFails \/ ClassFails
  \/ ProbeDone \/ ReleaseRung \/ Unbound \/ RemoveDevice \/ OpenNode \/ FileOperation

(* The user interrupts a process that hangs. *)
SpecProbe ==
  InitProbe /\ [][NextProbe]_allVars /\ Fairness /\ WF_vars(Interrupt)

-----------------------------------------------------------------------------
(* Whatever is refused, a probe that fails and a remove give back exactly  *)
(* what was had, and nothing is given back twice; while the device is open *)
(* or dma_callback is running, and as long as no signal made a write       *)
(* return before its transfer was over, all of it is there.                *)
HeldWhileUsed ==
  /\ \A r \in DOMAIN held : held[r] \in {0, 1}
  /\ going = "unbound" => \A r \in DOMAIN held : held[r] = 0
  /\ ~cut /\ (pc # "closed" \/ cb # "none") =>
       \A r \in DOMAIN held : held[r] = 1
=============================================================================
