----------------------------- MODULE HWGCModule -----------------------------
(***************************************************************************)
(* Loading and unloading the platform driver (hwgc_module_init and         *)
(* hwgc_module_exit): for each device an interrupt (GSI) is registered and *)
(* then a platform device created; either may fail, and what was done for  *)
(* the devices before is undone.  Devices are numbered from 1 here.        *)
(***************************************************************************)
EXTENDS Naturals

CONSTANT MaxDevs   \* HWGC_MAX_DEVS

ASSUME MaxDevsAssumption == MaxDevs \in Nat \ {0}

VARIABLES
  mod,       \* where the module is
  num_devs,  \* its parameter
  i,         \* the device at hand
  gsis,      \* devices whose GSI is registered
  pdevs,     \* platform devices that exist
  gsi0       \* GSI 0, which is not the module's, is still registered

modVars == <<mod, num_devs, i, gsis, pdevs, gsi0>>

Devs == 1..MaxDevs

ModInit == mod = "out" /\ num_devs = 1 /\ i = 1 /\ gsis = {} /\ pdevs = {} /\ gsi0 = TRUE

\* What an earlier load left registered, or unregistered, is not followed.
Load ==
  /\ mod = "out" /\ mod' = "gsi" /\ i' = 1 /\ gsis' = {} /\ pdevs' = {} /\ gsi0' = TRUE
  /\ num_devs' \in Devs

RegisterGsi ==
  /\ mod = "gsi"
  /\ \/ mod' = "pdev" /\ gsis' = gsis \cup {i}
     \/ mod' = "undo" /\ UNCHANGED gsis
  /\ UNCHANGED <<num_devs, i, pdevs, gsi0>>

RegisterDevice ==
  /\ mod = "pdev" /\ UNCHANGED <<num_devs, gsis, gsi0>>
  /\ \/ /\ pdevs' = pdevs \cup {i}
        /\ IF i = num_devs THEN mod' = "in" /\ UNCHANGED i ELSE mod' = "gsi" /\ i' = i + 1
     \/ mod' = "undo" /\ UNCHANGED <<i, pdevs>>

\* Mutant: the interrupt goes before the device that uses it.
GiveBackEarly(d) ==
  IF d \in gsis THEN gsis' = gsis \ {d} /\ UNCHANGED pdevs
                ELSE pdevs' = pdevs \ {d} /\ UNCHANGED gsis

\* A device, then its interrupt.
GiveBack(d) ==
  IF d \in pdevs THEN pdevs' = pdevs \ {d} /\ UNCHANGED gsis
                 ELSE gsis' = gsis \ {d} /\ UNCHANGED pdevs

\* while (--i >= 0): the devices before the one at hand, not the one at hand.
Undo ==
  /\ mod = "undo" /\ UNCHANGED <<num_devs, gsi0>>
  /\ LET before == {d \in pdevs \cup gsis : d < i} IN
       IF before = {} THEN mod' = "failed" /\ UNCHANGED <<i, gsis, pdevs>>
       ELSE /\ \E d \in before : (\A e \in before : e <= d) /\ GiveBack(d)
            /\ UNCHANGED <<mod, i>>

Unload ==
  /\ mod \in {"in", "failed"}
  /\ mod' = IF mod = "in" THEN "exit" ELSE "out"
  /\ UNCHANGED <<num_devs, i, gsis, pdevs, gsi0>>

\* The loop goes over all devices: gsi is 0, which passes its test for an
\* interrupt, for those that were not loaded.
ModuleExit ==
  /\ mod = "exit" /\ UNCHANGED <<num_devs, i>>
  /\ LET left == pdevs \cup gsis IN
       IF left = {}
       THEN mod' = "out" /\ gsi0' = (num_devs = MaxDevs /\ gsi0) /\ UNCHANGED <<gsis, pdevs>>
       ELSE /\ \E d \in left : (\A e \in left : d <= e) /\ GiveBack(d)
            /\ UNCHANGED <<mod, gsi0>>

ModNext ==
  \/ Load \/ RegisterGsi \/ RegisterDevice \/ Undo \/ Unload \/ ModuleExit

ModSpec == ModInit /\ [][ModNext]_modVars

-----------------------------------------------------------------------------
\* A platform device exists only with its interrupt registered; a module that
\* is out, or failed to load, leaves no device behind and no interrupt of the
\* devices before the one that failed.  The interrupt of that device itself may
\* stay: err_unregister_devices starts below it and nothing else gives it back.
\* An interrupt that is not the module's is taken from its owner only by the
\* exit of a module that was loaded with fewer devices than there may be.
ModuleUndone ==
  /\ pdevs \subseteq gsis
  /\ mod \in {"failed", "out"} => pdevs = {} /\ gsis \subseteq {i}
  /\ ~gsi0 => mod = "out" /\ num_devs < MaxDevs
=============================================================================
