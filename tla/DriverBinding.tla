--------------------------- MODULE DriverBinding ---------------------------
(***************************************************************************)
(* Binding and unbinding: what the probe functions of the four drivers     *)
(* take, step by step, what they give back when a step fails (the labels   *)
(* at their end, which fall through), and what the remove functions give   *)
(* back.  What remove waits for is in HWGCDriver and XorTlbDriver.         *)
(*                                                                         *)
(* Every step may fail.  What was taken with a devm or pcim function is    *)
(* given back by the kernel after a failed probe and after remove.         *)
(***************************************************************************)
EXTENDS Naturals, Sequences

VARIABLES
  driver,  \* the driver that is, or was last, bound
  stage,   \* "probe", "unwind", "bound", "remove", "managed", "unbound"
  step,    \* the step of the stage that comes next
  held     \* what was taken and not given back

bindVars == <<driver, stage, step, held>>

\* <<what the step takes, where it goes when it fails>>
PlatformProbe == <<
  <<"memory", "return">>, <<"drvdata", "never">>, <<"mmio_resource", "err_free">>,
  <<"mapping", "err_free">>, <<"irq_resource", "err_free">>, <<"locks", "never">>,
  <<"irq", "err_free">>, <<"id", "err_free_irq">>, <<"file", "err_free_id">> >>
\* Mutant: a failed step jumps one label too far.
PciProbeShort == <<
  <<"memory", "return">>, <<"drvdata", "never">>, <<"device", "err_free">>,
  <<"regions", "err_disable">>, <<"master", "never">>, <<"mapping", "err_disable">>,
  <<"vectors", "err_iounmap">>, <<"irq_number", "err_irq_vectors">>, <<"locks", "never">>,
  <<"irq", "err_irq_vectors">>, <<"id", "err_free_irq">>, <<"file", "err_free_id">> >>

PciProbe == <<
  <<"memory", "return">>, <<"drvdata", "never">>, <<"device", "err_free">>,
  <<"regions", "err_disable">>, <<"master", "never">>, <<"mapping", "err_regions">>,
  <<"vectors", "err_iounmap">>, <<"irq_number", "err_irq_vectors">>, <<"locks", "never">>,
  <<"irq", "err_irq_vectors">>, <<"id", "err_free_irq">>, <<"file", "err_free_id">> >>
XorProbe == <<
  <<"memory", "return">>, <<"drvdata", "never">>, <<"device", "err_free">>,
  <<"regions", "err_disable">>, <<"master", "never">>, <<"mapping", "err_regions">>,
  <<"vectors", "err_iounmap">>, <<"irq_number", "err_irq_vectors">>, <<"locks", "never">>,
  <<"irq", "err_irq_vectors">>, <<"file", "err_free_irq">>, <<"global_dev", "never">> >>
EduProbe == <<
  <<"memory", "return">>, <<"locks", "never">>, <<"device", "return">>, <<"mapping", "return">>,
  <<"irq", "return">>, <<"number", "return">>, <<"cdev", "err_unregister">>,
  <<"class", "err_cdev_del">>, <<"file", "err_class_destroy">>, <<"drvdata", "never">> >>

\* <<label, what is given back there>>, in the order of the code
PlatformLabels == <<
  <<"err_free_id", "id">>, <<"err_free_irq", "irq">>, <<"err_free", "drvdata">>,
  <<"none", "memory">> >>
PciLabels == <<
  <<"err_free_id", "id">>, <<"err_free_irq", "irq">>, <<"err_irq_vectors", "vectors">>,
  <<"err_iounmap", "mapping">>, <<"err_regions", "master">>, <<"none", "regions">>,
  <<"err_disable", "device">>, <<"err_free", "drvdata">>, <<"none", "memory">> >>
XorLabels == <<
  <<"err_free_irq", "irq">>, <<"err_irq_vectors", "vectors">>,
  <<"err_iounmap", "mapping">>, <<"err_regions", "master">>, <<"none", "regions">>,
  <<"err_disable", "device">>, <<"err_free", "drvdata">>, <<"none", "memory">> >>
EduLabels == <<
  <<"err_class_destroy", "class">>, <<"err_cdev_del", "cdev">>,
  <<"err_unregister", "number">> >>

PlatformRemove == <<"file", "id", "irq", "drvdata", "memory">>
PciRemove == <<"file", "id", "irq", "vectors", "mapping", "master", "regions", "device",
               "drvdata", "memory">>
XorRemoves == <<"global_dev", "file", "irq", "vectors", "mapping", "master", "regions",
                "device", "drvdata", "memory">>
EduRemove == <<"file", "class", "cdev", "number">>

Probe  == [platform |-> PlatformProbe, pci |-> PciProbe, xor |-> XorProbe, edu |-> EduProbe]
Labels == [platform |-> PlatformLabels, pci |-> PciLabels, xor |-> XorLabels, edu |-> EduLabels]
Remove == [platform |-> PlatformRemove, pci |-> PciRemove, xor |-> XorRemoves,
           edu |-> EduRemove]
\* Given back by the kernel, in this order: what devm and pcim functions took.
Managed == [platform |-> <<"mapping">>, pci |-> <<>>, xor |-> <<>>,
            edu |-> <<"irq", "mapping", "device", "memory", "drvdata">>]
\* What is looked up or initialised, and need not be given back.
Passive == {"mmio_resource", "irq_resource", "irq_number", "locks"}
Drivers == DOMAIN Probe

BindInit == driver \in Drivers /\ stage = "unbound" /\ step = 1 /\ held = {}

Enter(s) == stage' = s /\ step' = 1
\* The last step of a list ends the stage.
Advance(list, after) == IF step = Len(list) THEN Enter(after) ELSE step' = step + 1 /\ UNCHANGED stage

Bind ==
  /\ stage = "unbound" /\ Enter("probe")
  /\ held' = {}
  /\ driver' \in Drivers

ProbeStep ==
  /\ stage = "probe" /\ held' = held \cup {Probe[driver][step][1]}
  /\ Advance(Probe[driver], "bound")
  /\ UNCHANGED driver

ProbeFails ==
  /\ stage = "probe" /\ UNCHANGED <<driver, held>>
  /\ LET to == Probe[driver][step][2] IN
       \/ to = "return" /\ Enter("managed")
       \/ /\ stage' = "unwind"
          /\ step' \in {i \in DOMAIN Labels[driver] : Labels[driver][i][1] = to}

Unwind ==
  /\ stage = "unwind" /\ held' = held \ {Labels[driver][step][2]}
  /\ Advance(Labels[driver], "managed")
  /\ UNCHANGED driver

Unbind == stage = "bound" /\ Enter("remove") /\ UNCHANGED <<driver, held>>

RemoveStep ==
  /\ stage = "remove" /\ held' = held \ {Remove[driver][step]}
  /\ Advance(Remove[driver], "managed")
  /\ UNCHANGED driver

ManagedStep ==
  /\ stage = "managed" /\ UNCHANGED driver
  /\ IF Managed[driver] = <<>> THEN Enter("unbound") /\ UNCHANGED held
     ELSE /\ held' = held \ {Managed[driver][step]}
          /\ Advance(Managed[driver], "unbound")

BindNext == Bind \/ ProbeStep \/ ProbeFails \/ Unwind \/ Unbind \/ RemoveStep \/ ManagedStep

BindSpec == BindInit /\ [][BindNext]_bindVars

-----------------------------------------------------------------------------
(* Properties. *)

\* After a probe that failed at whatever step, and after remove, nothing is
\* held: each label gives back what was taken before the step that jumps to it.
NothingHeldUnbound == stage = "unbound" => held \subseteq Passive

\* While the interrupt is requested its handler may run at any moment, and
\* while the file is there it may be opened: what they use is there.
UsersHaveWhatTheyUse ==
  /\ "irq" \in held =>
       /\ {"memory", "mapping", "locks"} \subseteq held
       /\ driver \in {"pci", "xor"} => {"vectors", "device"} \subseteq held
  /\ "file" \in held => {"memory", "mapping", "locks", "irq"} \subseteq held
  /\ "mapping" \in held /\ driver \in {"pci", "xor"} => {"regions", "device"} \subseteq held
=============================================================================
