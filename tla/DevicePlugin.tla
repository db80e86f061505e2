---------------------------- MODULE DevicePlugin ----------------------------
(***************************************************************************)
(* The mock device plugin of each node (cmd/devplugin), as far as the      *)
(* scheduler sees it: whether the kubelet knows the plugin, and so what it *)
(* reports as the node's allocatable accelerators.                         *)
(***************************************************************************)
EXTENDS Naturals

CONSTANTS
  Nodes,
  Capacity   \* NUM_DEVICES of each node's plugin, [Nodes -> Nat]

ASSUME DeviceAssumption == Capacity \in [Nodes -> Nat]

\* "down", "known" to the kubelet, or "orphan": running, and the kubelet has
\* restarted since it registered.
VARIABLE plugin

\* ListAndWatch sends the devices, all of them healthy, once to the kubelet that
\* the plugin registered with; they are gone when that connection ends.
allocatable(n) == IF plugin[n] = "known" THEN Capacity[n] ELSE 0

\* run: the stale socket is removed, the plugin serves, then registers.  If
\* that fails the process exits, and is started again.
run(n) == plugin[n] = "down" /\ plugin' = [plugin EXCEPT ![n] = "known"]

\* The process ends ...
Exit(n) == plugin[n] # "down" /\ plugin' = [plugin EXCEPT ![n] = "down"]

\* ... or the kubelet restarts.  The plugin stays in its select {} and does not
\* watch the kubelet's socket, so it never registers again.
KubeletRestarts(n) == plugin[n] = "known" /\ plugin' = [plugin EXCEPT ![n] = "orphan"]
=============================================================================
