----------------------------------- MODULE DNS -----------------------------------
(***************************************************************************)
(* The commands prepare and cleanup (cmd/prepare, cmd/cleanup, pkg/dns and  *)
(* pkg/cleanup): prepare makes the cluster's DNS server send the names of   *)
(* the mesh to its shadow services, cleanup undoes that and deletes the     *)
(* shadow services.  Each is a process that ends at its first error and is  *)
(* started again; between two calls of the API server it can fail or be     *)
(* killed, and other writers can change what it has read.                   *)
(*                                                                          *)
(* A config map is what it says about the mesh.  The spacing addStubDomain  *)
(* and removeStubDomain leave behind is abstracted.                         *)
(***************************************************************************)
EXTENDS Naturals

CONSTANTS
    Shadow,             \* names of shadow services
    MaxStarts,          \* bound: starts of a command
    MaxFaults           \* bound: failing calls and killed processes

ASSUME BoundsAssumption == MaxStarts \in Nat /\ MaxFaults \in Nat

Command == {"prepare", "cleanup"}
Provider == {"CoreDNS", "KubeDNS"}

\* The deployments coredns and kube-dns of the cluster and coredns of the mesh, and
\* the config maps they mount.
Deployment == {"coredns", "kubedns", "meshdns"}
ConfigMap == {"Corefile", "custom", "stubDomains", "meshCorefile"}
Mounts(d) ==
    CASE d = "coredns" -> {"Corefile", "custom"}
      [] d = "kubedns" -> {"stubDomains"}
      [] d = "meshdns" -> {"meshCorefile"}

\* No such map; nothing for the mesh and, for stubDomains, no domain at all; domains
\* of the user only, or an empty list; the block of an earlier release; the block
\* this release writes.
Content == {"missing", "plain", "other", "old", "patched"}
ForMesh == {"old", "patched"}

VARIABLES
    provider,   \* the DNS server of the cluster
    content,    \* the config maps
    running,    \* what the running pods read from them when they started
    rollout,    \* the deployments whose pods are to be restarted
    shadows,    \* the shadow services
    created,    \* auxiliary: those created since the latest cleanup listed them
    cmd,        \* the processes of the commands
    last,       \* the command that ran alone since its latest start, or "none"
    unsteady,   \* has coredns-custom been created late, or a read of it failed?
    starts, faults  \* uses of the bounds

clusterVars == <<provider, content, running, rollout, shadows, created>>
budgetVars == <<starts, faults>>
vars == <<clusterVars, cmd, last, unsteady, budgetVars>>

Place == {"idle", "shadows", "read", "readKube", "updateKube", "update", "restart",
          "restartKube", "failed", "done"}

\* Where it is, the objects it has up-to-date copies of, the map of the configuration
\* of CoreDNS it has chosen, and the shadow services it has yet to delete.
Process == [pc : Place, current : SUBSET (ConfigMap \cup Deployment),
            cm : ConfigMap, todo : SUBSET Shadow]

TypeOK ==
    /\ provider \in Provider
    /\ content \in [ConfigMap -> Content] /\ running \in [ConfigMap -> Content]
    /\ rollout \subseteq Deployment
    /\ shadows \subseteq Shadow /\ created \subseteq shadows
    /\ cmd \in [Command -> Process]
    /\ last \in Command \cup {"none"}
    /\ unsteady \in BOOLEAN
    /\ starts \in 0 .. MaxStarts /\ faults \in 0 .. MaxFaults

NewProcess(pc, todo) == [pc |-> pc, current |-> {}, cm |-> "Corefile", todo |-> todo]

\* Before the first start, or with what an earlier release has left.
Init ==
    /\ provider \in Provider
    /\ content \in [ConfigMap -> Content]
    /\ content["Corefile"] \in {"plain", "old"}
    /\ content["custom"] \in {"missing", "plain", "old"}
    /\ content["custom"] # "missing" => content["Corefile"] = "plain"
    /\ content["stubDomains"] \in {"missing", "plain", "other", "patched"}
    /\ content["meshCorefile"] \in {"plain", "old"}
    /\ running = content
    /\ rollout = {}
    /\ shadows \in SUBSET Shadow /\ created = {}
    /\ cmd = [c \in Command |-> NewProcess("idle", {})]
    /\ last = "none" /\ unsteady = FALSE
    /\ starts = 0 /\ faults = 0

--------------------------------------------------------------------------------
(* Processes and their calls *)

IsRunning(c) == cmd[c].pc \notin {"idle", "failed", "done"}

At(c, pc) == cmd[c].pc = pc

GoTo(c, pc) == cmd' = [cmd EXCEPT ![c].pc = pc]

\* The process ends with an error and what it had read is lost.
EndFailed(c) == cmd' = [cmd EXCEPT ![c] = NewProcess("failed", {})]

\* A new process; CheckDNSProvider and the list of the shadow services come first.
Start(c) ==
    /\ ~ IsRunning(c) /\ starts < MaxStarts
    /\ cmd' = [cmd EXCEPT ![c] =
                CASE c = "cleanup" -> NewProcess("shadows", shadows)
                  [] c = "prepare" /\ provider = "CoreDNS" -> NewProcess("read", {})
                  [] c = "prepare" /\ provider = "KubeDNS" -> NewProcess("readKube", {})]
    /\ last' = IF \E o \in Command \ {c} : IsRunning(o) THEN "none" ELSE c
    /\ created' = IF c = "cleanup" THEN {} ELSE created
    /\ starts' = starts + 1
    /\ UNCHANGED <<provider, content, running, rollout, shadows, unsteady, faults>>

\* A call fails, an answer is lost after the call was done, or the process is killed.
Fail(c) ==
    /\ IsRunning(c) /\ faults < MaxFaults
    /\ EndFailed(c)
    /\ faults' = faults + 1
    /\ UNCHANGED <<clusterVars, last, unsteady, starts>>

\* The API server refuses an update of an object that has changed since it was read.
Refused(c, object) ==
    /\ object \notin cmd[c].current
    /\ EndFailed(c)
    /\ UNCHANGED <<clusterVars, last, unsteady, budgetVars>>

\* An accepted update makes every copy of the object old.
Accepted(c, object, pc) ==
    /\ object \in cmd[c].current
    /\ cmd' = [o \in Command |->
                [cmd[o] EXCEPT !.current = @ \ {object}, !.pc = IF o = c THEN pc ELSE @]]
    /\ UNCHANGED <<provider, running, shadows, created, last, unsteady, budgetVars>>

\* Update of a config map.
Write(c, m, value, pc) ==
    \/ Refused(c, m)
    \/ /\ Accepted(c, m, pc)
       /\ content' = [content EXCEPT ![m] = value]
       /\ UNCHANGED rollout

\* restartPods: a new annotation of the deployment that was read before.
RestartPods(c, d, pc) ==
    \/ Refused(c, d)
    \/ /\ Accepted(c, d, pc)
       /\ rollout' = rollout \cup {d}
       /\ UNCHANGED content

--------------------------------------------------------------------------------
(* The CoreDNS server of the cluster, and that of the mesh under KubeDNS *)

\* The server ConfigureCoreDNS and RestoreCoreDNS work on.
CoreServer == IF provider = "CoreDNS" THEN "coredns" ELSE "meshdns"

\* The map of the configuration: coredns-custom wherever it exists (the deployment of
\* the cluster has a volume for it then), as on AKS.
CoreMap ==
    CASE provider = "KubeDNS" -> "meshCorefile"
      [] provider = "CoreDNS" /\ content["custom"] # "missing" -> "custom"
      [] provider = "CoreDNS" /\ content["custom"] = "missing" -> "Corefile"

AfterCore(c) == IF provider = "KubeDNS" THEN "restartKube" ELSE "done"

\* Fault: any block counts as the block of this release.
IsBlock(value) == value \in ForMesh

\* addStubDomain reports no change when the block is the one it writes.
IsPatched(value) == value = "patched"

\* The beginning of ConfigureCoreDNS and RestoreCoreDNS: the deployment and the map m
\* are read.
ReadCoreFrom(c, m) ==
    /\ At(c, "read")
    /\ cmd' = [cmd EXCEPT ![c].cm = m,
                          ![c].current = @ \cup {CoreServer, m},
                          ![c].pc = IF c = "prepare" /\ IsPatched(content[m])
                                    THEN AfterCore(c) ELSE "update"]
    /\ UNCHANGED <<clusterVars, last, starts>>

\* Any error of the read of coredns-custom makes a command use the Corefile.
ReadCore(c) ==
    \/ /\ ReadCoreFrom(c, CoreMap)
       /\ UNCHANGED <<unsteady, faults>>
    \/ /\ provider = "CoreDNS" /\ content["custom"] # "missing" /\ faults < MaxFaults
       /\ ReadCoreFrom(c, "Corefile")
       /\ unsteady' = TRUE
       /\ faults' = faults + 1

\* The update of ConfigureCoreDNS, or of RestoreCoreDNS which does it in any case.
UpdateCore(c) ==
    /\ At(c, "update")
    /\ Write(c, cmd[c].cm, IF c = "prepare" THEN "patched" ELSE "plain", "restart")

RestartCore(c) == At(c, "restart") /\ RestartPods(c, CoreServer, AfterCore(c))

--------------------------------------------------------------------------------
(* The KubeDNS server of the cluster *)

\* Fault: without a domain of the mesh there is nothing to restore.
HasNoDomainOfMesh(value) == value \in {"plain", "other"}

\* RestoreKubeDNS returns when no stub domains are defined; an empty list, which an
\* earlier attempt may have left, is defined.
HasNothingToRestore(value) == value = "plain"

\* The beginning of ConfigureKubeDNS and RestoreKubeDNS.  prepare waits for the
\* service of the mesh's own CoreDNS and creates a missing map; cleanup fails on it.
ReadKube(c) ==
    /\ At(c, "readKube")
    /\ content' = IF c = "prepare" /\ content["stubDomains"] = "missing"
                  THEN [content EXCEPT !["stubDomains"] = "plain"] ELSE content
    /\ cmd' = [cmd EXCEPT
                ![c].current = @ \cup {"kubedns", "stubDomains"},
                ![c].pc = CASE content'["stubDomains"] = "missing" -> "failed"
                            [] c = "cleanup" /\ HasNothingToRestore(content'["stubDomains"]) -> "done"
                            [] OTHER -> "updateKube"]
    /\ UNCHANGED <<provider, running, rollout, shadows, created, last, unsteady, budgetVars>>

UpdateKube(c) ==
    /\ At(c, "updateKube")
    /\ IF c = "prepare" THEN Write(c, "stubDomains", "patched", "read")
                        ELSE Write(c, "stubDomains", "other", "restartKube")

RestartKube(c) == At(c, "restartKube") /\ RestartPods(c, "kubedns", "done")

--------------------------------------------------------------------------------
(* CleanShadowServices *)

\* The deletion of a shadow service that is gone is an error as well.
DeleteShadow ==
    /\ At("cleanup", "shadows")
    /\ \E s \in cmd["cleanup"].todo :
        \/ /\ s \in shadows
           /\ shadows' = shadows \ {s} /\ created' = created \ {s}
           /\ cmd' = [cmd EXCEPT !["cleanup"].todo = @ \ {s}]
        \/ /\ s \notin shadows
           /\ EndFailed("cleanup")
           /\ UNCHANGED <<shadows, created>>
    /\ UNCHANGED <<provider, content, running, rollout, last, unsteady, budgetVars>>

\* RestoreDNSConfig follows when all are deleted.
ShadowsDeleted ==
    /\ At("cleanup", "shadows")
    /\ cmd["cleanup"].todo = {}
    /\ GoTo("cleanup", IF provider = "CoreDNS" THEN "read" ELSE "readKube")
    /\ UNCHANGED <<clusterVars, last, unsteady, budgetVars>>

--------------------------------------------------------------------------------
(* Others *)

\* The pods of a deployment are restarted, on request or not, and read their maps.
PodsStart(d) ==
    /\ running' = [m \in ConfigMap |-> IF m \in Mounts(d) THEN content[m] ELSE running[m]]
    /\ rollout' = rollout \ {d}
    /\ UNCHANGED <<provider, content, shadows, created, cmd, last, unsteady, budgetVars>>

\* Somebody else writes an object: its status, or a part that is not the mesh's.
ObjectChanges(object) ==
    /\ \E c \in Command : object \in cmd[c].current
    /\ cmd' = [c \in Command |-> [cmd[c] EXCEPT !.current = @ \ {object}]]
    /\ UNCHANGED <<clusterVars, last, unsteady, budgetVars>>

\* The controller, still running, creates the shadow service of a service that is new or
\* whose key is processed again, also one that cleanup has just deleted.
ControllerCreates(s) ==
    /\ s \notin shadows
    /\ shadows' = shadows \cup {s} /\ created' = created \cup {s}
    /\ UNCHANGED <<provider, content, running, rollout, cmd, last, unsteady, budgetVars>>

\* It deletes a shadow service with its service.
ControllerDeletes(s) ==
    /\ s \in shadows
    /\ shadows' = shadows \ {s} /\ created' = created \ {s}
    /\ UNCHANGED <<provider, content, running, rollout, cmd, last, unsteady, budgetVars>>

\* The map coredns-custom is created after the installation.
CustomAppears ==
    /\ provider = "CoreDNS" /\ content["custom"] = "missing" /\ starts > 0
    /\ content' = [content EXCEPT !["custom"] = "plain"]
    /\ unsteady' = TRUE
    /\ UNCHANGED <<provider, running, rollout, shadows, created, cmd, last, budgetVars>>

Next ==
    \/ \E c \in Command :
        \/ Start(c) \/ Fail(c)
        \/ ReadCore(c) \/ UpdateCore(c) \/ RestartCore(c)
        \/ ReadKube(c) \/ UpdateKube(c) \/ RestartKube(c)
    \/ DeleteShadow \/ ShadowsDeleted
    \/ \E d \in Deployment : PodsStart(d)
    \/ \E object \in ConfigMap \cup Deployment : ObjectChanges(object)
    \/ \E s \in Shadow : ControllerCreates(s) \/ ControllerDeletes(s)
    \/ CustomAppears

Spec == Init /\ [][Next]_vars

--------------------------------------------------------------------------------
(* Properties *)

ServerMaps == IF provider = "CoreDNS" THEN Mounts("coredns") ELSE Mounts("kubedns")

Restored ==
    /\ shadows = created
    /\ \A m \in ServerMaps : content[m] \notin ForMesh
    /\ rollout = {} => \A m \in ServerMaps : running[m] \notin ForMesh

CleanupSucceeded == last = "cleanup" /\ At("cleanup", "done")

\* A cleanup that succeeds, after any number of failed ones and with whatever failed
\* prepares left, has undone everything: no map of the DNS server speaks of the mesh,
\* its pods do not either once they are restarted (RestoreDNSConfig), and no shadow service
\* is left but those that the controller, if it still runs, has created since they were
\* listed (CleanShadowServices).  It takes that every command found the same of the two
\* maps of CoreDNS.
CleanupRestores == CleanupSucceeded /\ ~ unsteady => Restored

\* dns.go:317: "RestoreCoreDNS restores the CoreDNS configuration to pre-install
\* state."  It does not when coredns-custom was created after the installation, or
\* when the read of it failed: the block then stays in the other map.
CleanupAlwaysRestores == CleanupSucceeded => Restored

\* A prepare that succeeds, after failed ones, leaves the block of its own release in
\* the map it chose, also where an earlier release left another block, and under
\* KubeDNS the stub domain that leads there.  ConfigureCoreDNS writes nothing when
\* addStubDomain reports no change.
PrepareConfigures ==
    last = "prepare" /\ At("prepare", "done") =>
        /\ content[cmd["prepare"].cm] = "patched"
        /\ provider = "KubeDNS" => content["stubDomains"] = "patched"
================================================================================
