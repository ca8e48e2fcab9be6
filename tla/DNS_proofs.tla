------------------------------- MODULE DNS_proofs -------------------------------
(* A successful cleanup has undone the installation and a successful prepare has *)
(* configured the mesh, after any number of failed attempts, for every set of    *)
(* shadow services and every bound.                                              *)
EXTENDS DNS, TLAPS

CoreMaps == {"Corefile", "custom"}

\* Where a command may be.  Under KubeDNS, cleanup never works on a CoreDNS server.
PlacesOK ==
    /\ cmd["prepare"].pc # "shadows"
    /\ provider = "CoreDNS" =>
        \A c \in Command : cmd[c].pc \notin {"readKube", "updateKube", "restartKube"}
    /\ provider = "KubeDNS" => cmd["cleanup"].pc \notin {"read", "update", "restart"}
    /\ last \in Command => \A c \in Command : c # last => ~ IsRunning(c)

\* As long as coredns-custom stays there or away, only one of the two maps is ever used, and a command
\* that is about to update has chosen it.
OneMapUsed ==
    /\ ~unsteady /\ content["custom"] # "missing" => content["Corefile"] = "plain"
    /\ \A c \in Command : cmd[c].pc = "update" =>
        /\ provider = "CoreDNS" => cmd[c].cm \in CoreMaps
        /\ provider = "KubeDNS" => cmd[c].cm = "meshCorefile"
        /\ provider = "CoreDNS" /\ ~unsteady => cmd[c].cm = CoreMap

\* As long as no stub domains are defined, the pods have not seen any of the mesh.
NoStubDomainsYet ==
    content["stubDomains"] \in {"missing", "plain"} => running["stubDomains"] \notin ForMesh

\* What a cleanup that runs alone has achieved at each place.
CleanupProgress ==
    last = "cleanup" =>
        LET pc == cmd["cleanup"].pc
        IN  /\ pc = "shadows" => shadows \subseteq cmd["cleanup"].todo \cup created
            /\ pc \notin {"idle", "failed", "shadows"} => shadows = created
            /\ ~unsteady /\ provider = "CoreDNS" /\ pc \in {"restart", "done"} =>
                \A m \in CoreMaps : content[m] \notin ForMesh
            /\ ~unsteady /\ provider = "CoreDNS" /\ pc = "done" =>
                \/ "coredns" \in rollout
                \/ \A m \in CoreMaps : running[m] \notin ForMesh
            /\ provider = "KubeDNS" /\ pc \in {"restartKube", "done"} =>
                content["stubDomains"] \notin ForMesh
            /\ provider = "KubeDNS" /\ pc = "done" =>
                "kubedns" \in rollout \/ running["stubDomains"] \notin ForMesh

\* What a prepare that runs alone has achieved at each place.
PrepareProgress ==
    last = "prepare" =>
        LET pc == cmd["prepare"].pc
        IN  /\ pc \in {"restart", "restartKube", "done"} =>
                content[cmd["prepare"].cm] = "patched"
            /\ provider = "KubeDNS"
                 /\ pc \in {"read", "update", "restart", "restartKube", "done"} =>
                content["stubDomains"] = "patched"

IInv ==
    TypeOK /\ PlacesOK /\ OneMapUsed /\ NoStubDomainsYet /\ CleanupProgress /\ PrepareProgress


--------------------------------------------------------------------------------
(* Initial states                                                           *)

\* Every initial state satisfies the invariant.
LEMMA IInvInitially == Init => IInv
<1> SUFFICES ASSUME Init PROVE IInv
  OBVIOUS
<1>1. TypeOK
  <2>1. NewProcess("idle", {}) \in Process
    BY DEF NewProcess, Process, Place, ConfigMap
  <2>2. cmd \in [Command -> Process]
    BY <2>1 DEF Init
  <2>3. starts \in 0 .. MaxStarts /\ faults \in 0 .. MaxFaults
    BY BoundsAssumption DEF Init
  <2>4. /\ provider \in Provider /\ rollout \subseteq Deployment
        /\ shadows \subseteq Shadow /\ created \subseteq shadows
        /\ content \in [ConfigMap -> Content] /\ running \in [ConfigMap -> Content]
    BY DEF Init
  <2>5. last \in Command \cup {"none"} /\ unsteady \in BOOLEAN
    BY DEF Init
  <2> QED
    BY <2>2, <2>3, <2>4, <2>5 DEF TypeOK
<1>2. PlacesOK /\ CleanupProgress /\ PrepareProgress
  BY DEF Init, PlacesOK, CleanupProgress, PrepareProgress, NewProcess, Process, Command
<1>3. OneMapUsed /\ NoStubDomainsYet
  BY DEF Init, OneMapUsed, NoStubDomainsYet, NewProcess, Process, Command, ForMesh
<1> QED
  BY <1>1, <1>2, <1>3 DEF IInv

--------------------------------------------------------------------------------
(* One lemma per action                                                     *)

\* A new process has read and done nothing yet.
LEMMA StartKeepsIInv ==
    ASSUME IInv, NEW c \in Command, Start(c)
    PROVE  IInv'
<1> USE DEF IInv
<1>1. /\ cmd' \in [Command -> Process]
      /\ cmd'[c].pc \in {"shadows", "read", "readKube"}
      /\ cmd'[c].pc = "shadows" <=> c = "cleanup"
      /\ cmd'[c].pc = "readKube" => provider = "KubeDNS"
      /\ cmd'[c].pc = "read" => provider = "CoreDNS"
      /\ c = "cleanup" => cmd'[c].todo = shadows
      /\ \A o \in Command : o # c => cmd'[o] = cmd[o]
  <2>1. PICK new : /\ cmd' = [cmd EXCEPT ![c] = new]
                   /\ c = "cleanup" => new = NewProcess("shadows", shadows)
                   /\ c = "prepare" /\ provider = "CoreDNS" => new = NewProcess("read", {})
                   /\ c = "prepare" /\ provider = "KubeDNS" => new = NewProcess("readKube", {})
    BY DEF Start
  <2>2. new \in Process
    BY <2>1 DEF TypeOK, NewProcess, Process, Command, Provider, Place, ConfigMap
  <2>3. /\ cmd' \in [Command -> Process]
        /\ cmd'[c] = new
        /\ \A o \in Command : o # c => cmd'[o] = cmd[o]
    BY <2>1, <2>2 DEF TypeOK
  <2> QED
    BY <2>1, <2>3 DEF TypeOK, NewProcess, Command, Provider
<1>2. TypeOK'
  <2>1. last' \in Command \cup {"none"}
    BY DEF Start
  <2>2. starts' \in 0 .. MaxStarts
    BY BoundsAssumption DEF TypeOK, Start
  <2> QED
    BY <1>1, <2>1, <2>2 DEF TypeOK, Start
<1>3. PlacesOK'
  BY <1>1 DEF PlacesOK, Start, Command, IsRunning
<1>4. OneMapUsed' /\ NoStubDomainsYet'
  BY <1>1 DEF OneMapUsed, NoStubDomainsYet, Start, CoreMap
<1>5. CleanupProgress' /\ PrepareProgress'
  BY <1>1 DEF CleanupProgress, PrepareProgress, Start, Command
<1> QED
  BY <1>2, <1>3, <1>4, <1>5

\* A failed process claims nothing.
LEMMA FailKeepsIInv ==
    ASSUME IInv, NEW c \in Command, Fail(c)
    PROVE  IInv'
<1> USE DEF IInv
<1>1. TypeOK'
  <2>1. NewProcess("failed", {}) \in Process
    BY DEF NewProcess, Process, Place, ConfigMap
  <2> QED
    BY <2>1, BoundsAssumption DEF TypeOK, Fail, EndFailed, clusterVars
<1>2. /\ cmd'[c].pc = "failed"
      /\ \A o \in Command : o # c => cmd'[o] = cmd[o]
      /\ UNCHANGED <<clusterVars, last, unsteady>>
  BY DEF TypeOK, Fail, EndFailed, NewProcess
<1>3. PlacesOK'
  BY <1>2 DEF PlacesOK, clusterVars, Command, IsRunning
<1>4. OneMapUsed' /\ NoStubDomainsYet'
  BY <1>2 DEF OneMapUsed, NoStubDomainsYet, clusterVars, CoreMap
<1>5. CleanupProgress' /\ PrepareProgress'
  BY <1>2 DEF CleanupProgress, PrepareProgress, clusterVars, Command
<1> QED
  BY <1>1, <1>3, <1>4, <1>5

\* Nor does one whose update is refused.
LEMMA RefusedKeepsIInv ==
    ASSUME IInv, NEW c \in Command, NEW object, Refused(c, object)
    PROVE  IInv'
<1> USE DEF IInv
<1>1. TypeOK'
  <2>1. NewProcess("failed", {}) \in Process
    BY DEF NewProcess, Process, Place, ConfigMap
  <2> QED
    BY <2>1 DEF TypeOK, Refused, EndFailed, clusterVars, budgetVars
<1>2. /\ cmd'[c].pc = "failed"
      /\ \A o \in Command : o # c => cmd'[o] = cmd[o]
      /\ UNCHANGED <<clusterVars, last, unsteady>>
  BY DEF TypeOK, Refused, EndFailed, NewProcess
<1>3. PlacesOK'
  BY <1>2 DEF PlacesOK, clusterVars, Command, IsRunning
<1>4. OneMapUsed' /\ NoStubDomainsYet'
  BY <1>2 DEF OneMapUsed, NoStubDomainsYet, clusterVars, CoreMap
<1>5. CleanupProgress' /\ PrepareProgress'
  BY <1>2 DEF CleanupProgress, PrepareProgress, clusterVars, Command
<1> QED
  BY <1>1, <1>3, <1>4, <1>5

--------------------------------------------------------------------------------
(* Calls                                                                    *)

\* What an accepted update does to the processes.
LEMMA AcceptedEffect ==
    ASSUME TypeOK, NEW c \in Command, NEW object, NEW pc \in Place, Accepted(c, object, pc)
    PROVE  /\ cmd' \in [Command -> Process]
           /\ cmd'[c].pc = pc
           /\ \A o \in Command : o # c => cmd'[o].pc = cmd[o].pc
           /\ \A o \in Command : cmd'[o].cm = cmd[o].cm /\ cmd'[o].todo = cmd[o].todo
  BY DEF TypeOK, Accepted, Process

\* The map ReadCore chooses is the one to use.
LEMMA ReadCoreKeepsIInv ==
    ASSUME IInv, NEW c \in Command, ReadCore(c)
    PROVE  IInv'
<1> USE DEF IInv
<1>1. PICK m \in ConfigMap :
        /\ ReadCoreFrom(c, m)
        /\ m = CoreMap \/ (provider = "CoreDNS" /\ m = "Corefile" /\ unsteady')
        /\ unsteady => unsteady'
        /\ unsteady' \in BOOLEAN /\ faults' \in 0 .. MaxFaults
  <2>1. CoreMap \in ConfigMap /\ "Corefile" \in ConfigMap
    BY DEF CoreMap, ConfigMap, TypeOK, Provider
  <2>2. CASE ReadCoreFrom(c, CoreMap) /\ UNCHANGED <<unsteady, faults>>
    BY <2>1, <2>2 DEF TypeOK
  <2>3. ASSUME provider = "CoreDNS", faults < MaxFaults, ReadCoreFrom(c, "Corefile"),
               unsteady' = TRUE, faults' = faults + 1
        PROVE  /\ provider = "CoreDNS" /\ ReadCoreFrom(c, "Corefile")
               /\ unsteady' \in BOOLEAN /\ unsteady'
               /\ faults' \in 0 .. MaxFaults
    <3>1. faults' \in 0 .. MaxFaults
      BY <2>3, BoundsAssumption DEF TypeOK
    <3> QED
      BY <2>3, <3>1
  <2>4. CASE ~ (ReadCoreFrom(c, CoreMap) /\ UNCHANGED <<unsteady, faults>>)
    BY <2>1, <2>3, <2>4 DEF ReadCore
  <2> QED
    BY <2>2, <2>4
<1>2. /\ cmd' \in [Command -> Process]
      /\ cmd'[c].pc = IF c = "prepare" /\ IsPatched(content[m])
                      THEN AfterCore(c) ELSE "update"
      /\ cmd'[c].cm = m
      /\ cmd'[c].todo = cmd[c].todo
      /\ \A o \in Command : o # c => cmd'[o] = cmd[o]
  <2>1. CoreServer \in Deployment /\ AfterCore(c) \in Place
    BY DEF CoreServer, Deployment, AfterCore, Place
  <2>2. "update" \in Place
    BY DEF Place
  <2> QED
    BY <1>1, <2>1, <2>2 DEF TypeOK, ReadCoreFrom, Process
<1>3. cmd[c].pc = "read" /\ UNCHANGED <<clusterVars, last, starts>>
  BY <1>1 DEF ReadCoreFrom, At
<1>4. TypeOK'
  BY <1>1, <1>2, <1>3 DEF TypeOK, clusterVars
<1>5. PlacesOK'
  BY <1>2, <1>3 DEF PlacesOK, clusterVars, Command, IsRunning, AfterCore, TypeOK, Provider
<1>6. OneMapUsed' /\ NoStubDomainsYet'
  <2>1. /\ provider = "CoreDNS" => m \in CoreMaps
        /\ provider = "KubeDNS" => m = "meshCorefile"
        /\ ~unsteady' => ~unsteady /\ m = CoreMap
    BY <1>1 DEF CoreMap, CoreMaps, TypeOK
  <2>2. CoreMap' = CoreMap
    BY <1>3 DEF CoreMap, clusterVars
  <2> QED
    BY <1>2, <1>3, <2>1, <2>2 DEF OneMapUsed, NoStubDomainsYet, clusterVars
<1>7. CASE c = "prepare"
  <2>1. last # "cleanup"
    BY <1>3, <1>7 DEF PlacesOK, IsRunning, Command
  <2>2. PrepareProgress'
    BY <1>2, <1>3, <1>7 DEF PrepareProgress, clusterVars, IsPatched
  <2> QED
    BY <1>3, <1>4, <1>5, <1>6, <2>1, <2>2 DEF CleanupProgress
<1>8. CASE c = "cleanup"
  <2>1. last # "prepare"
    BY <1>3, <1>8 DEF PlacesOK, IsRunning, Command
  <2>2. CleanupProgress'
    BY <1>2, <1>3, <1>8 DEF CleanupProgress, clusterVars
  <2> QED
    BY <1>3, <1>4, <1>5, <1>6, <2>1, <2>2 DEF PrepareProgress
<1> QED
  BY <1>7, <1>8 DEF Command

\* The update goes to the one map that is used.
LEMMA UpdateCoreKeepsIInv ==
    ASSUME IInv, NEW c \in Command, UpdateCore(c)
    PROVE  IInv'
<1> USE DEF IInv
<1> DEFINE m == cmd[c].cm
           value == IF c = "prepare" THEN "patched" ELSE "plain"
<1>1. CASE Refused(c, m)
  BY <1>1, RefusedKeepsIInv
<1>2. ASSUME Accepted(c, m, "restart"), content' = [content EXCEPT ![m] = value],
             UNCHANGED rollout
      PROVE  IInv'
  <2>1. /\ cmd' \in [Command -> Process]
        /\ cmd'[c].pc = "restart"
        /\ \A o \in Command : o # c => cmd'[o].pc = cmd[o].pc
        /\ \A o \in Command : cmd'[o].cm = cmd[o].cm /\ cmd'[o].todo = cmd[o].todo
    BY <1>2, AcceptedEffect DEF Place
  <2>2. /\ cmd[c].pc = "update"
        /\ UNCHANGED <<provider, running, rollout, shadows, created, last, unsteady, budgetVars>>
    BY <1>2 DEF UpdateCore, At, Accepted
  <2>3. /\ content' \in [ConfigMap -> Content]
        /\ content'[m] = value
        /\ \A n \in ConfigMap : n # m => content'[n] = content[n]
        /\ m \in ConfigMap
    BY <1>2 DEF TypeOK, Process, Content
  <2>4. TypeOK'
    BY <2>1, <2>2, <2>3 DEF TypeOK, budgetVars
  <2>5. PlacesOK'
    BY <2>1, <2>2 DEF PlacesOK, Command, IsRunning
  <2>6. /\ provider = "CoreDNS" => m \in CoreMaps
        /\ provider = "KubeDNS" => m = "meshCorefile"
        /\ provider = "CoreDNS" /\ ~unsteady => m = CoreMap
        /\ provider \in {"CoreDNS", "KubeDNS"}
    BY <2>2 DEF OneMapUsed, TypeOK, Provider
  <2>7. /\ content'["stubDomains"] = content["stubDomains"]
        /\ ~unsteady =>
            (content'["custom"] = "missing" <=> content["custom"] = "missing")
    BY <2>3, <2>6 DEF CoreMaps, CoreMap, ConfigMap
  <2>8. NoStubDomainsYet'
    BY <2>2, <2>7 DEF NoStubDomainsYet
  <2>9. OneMapUsed'
    <3>1. ~unsteady /\ content'["custom"] # "missing" => content'["Corefile"] = "plain"
      BY <2>3, <2>6, <2>7 DEF OneMapUsed, CoreMap, ConfigMap
    <3>2. ~unsteady => CoreMap' = CoreMap
      BY <2>2, <2>7 DEF CoreMap
    <3> QED
      BY <3>1, <3>2, <2>1, <2>2 DEF OneMapUsed
  <2>10. CleanupProgress' /\ PrepareProgress'
    <3>1. CASE c = "prepare"
      BY <2>1, <2>2, <2>3, <2>7, <3>1
      DEF CleanupProgress, PrepareProgress, PlacesOK, IsRunning, Command
    <3>2. CASE c = "cleanup"
      <4>1. ~unsteady /\ provider = "CoreDNS" =>
                \A n \in CoreMaps : content'[n] \notin ForMesh
        BY <2>3, <2>6, <2>7, <3>2 DEF OneMapUsed, CoreMaps, CoreMap, ConfigMap, ForMesh
      <4>2. CleanupProgress'
        BY <2>1, <2>2, <3>2, <4>1, <2>6 DEF CleanupProgress, PlacesOK
      <4>3. last # "prepare"
        BY <2>2, <3>2 DEF PlacesOK, IsRunning, Command
      <4> QED
        BY <4>2, <4>3, <2>2 DEF PrepareProgress
    <3> QED
      BY <3>1, <3>2 DEF Command
  <2> QED
    BY <2>4, <2>5, <2>8, <2>9, <2>10
<1> QED
  BY <1>1, <1>2 DEF UpdateCore, Write

\* A restart is requested after the update.
LEMMA RestartCoreKeepsIInv ==
    ASSUME IInv, NEW c \in Command, RestartCore(c)
    PROVE  IInv'
<1> USE DEF IInv
<1>1. CASE Refused(c, CoreServer)
  BY <1>1, RefusedKeepsIInv
<1>2. ASSUME Accepted(c, CoreServer, AfterCore(c)), rollout' = rollout \cup {CoreServer},
             UNCHANGED content
      PROVE  IInv'
  <2>1. /\ cmd' \in [Command -> Process]
        /\ cmd'[c].pc = AfterCore(c)
        /\ \A o \in Command : o # c => cmd'[o].pc = cmd[o].pc
        /\ \A o \in Command : cmd'[o].cm = cmd[o].cm /\ cmd'[o].todo = cmd[o].todo
    BY <1>2, AcceptedEffect DEF Place, AfterCore
  <2>2. /\ cmd[c].pc = "restart"
        /\ UNCHANGED <<provider, content, running, shadows, created, last, unsteady, budgetVars>>
    BY <1>2 DEF RestartCore, At, Accepted
  <2>3. TypeOK'
    BY <1>2, <2>1, <2>2 DEF TypeOK, budgetVars, CoreServer, Deployment
  <2>4. PlacesOK'
    BY <2>1, <2>2 DEF PlacesOK, Command, IsRunning, AfterCore, TypeOK, Provider
  <2>5. OneMapUsed' /\ NoStubDomainsYet'
    BY <2>1, <2>2 DEF OneMapUsed, NoStubDomainsYet, CoreMap, AfterCore
  <2>6. CASE c = "prepare"
    <3>1. last # "cleanup"
      BY <2>2, <2>6 DEF PlacesOK, IsRunning, Command
    <3>2. PrepareProgress'
      BY <2>1, <2>2, <2>6 DEF PrepareProgress
    <3> QED
      BY <2>2, <2>3, <2>4, <2>5, <3>1, <3>2 DEF CleanupProgress
  <2>7. CASE c = "cleanup"
    <3>1. last # "prepare" /\ provider = "CoreDNS"
      BY <2>2, <2>7 DEF PlacesOK, IsRunning, Command, TypeOK, Provider
    <3>2. CleanupProgress'
      BY <1>2, <2>1, <2>2, <2>7, <3>1 DEF CleanupProgress, CoreServer, AfterCore
    <3> QED
      BY <2>2, <2>3, <2>4, <2>5, <3>1, <3>2 DEF PrepareProgress
  <2> QED
    BY <2>6, <2>7 DEF Command
<1> QED
  BY <1>1, <1>2 DEF RestartCore, RestartPods

\* A cleanup that finds no stub domains has nothing to undo.
LEMMA ReadKubeKeepsIInv ==
    ASSUME IInv, NEW c \in Command, ReadKube(c)
    PROVE  IInv'
<1> USE DEF IInv
<1> DEFINE sd == "stubDomains"
<1>1. /\ cmd[c].pc = "readKube"
      /\ UNCHANGED <<provider, running, rollout, shadows, created, last, unsteady, budgetVars>>
      /\ content' \in [ConfigMap -> Content]
      /\ \A n \in ConfigMap : n # sd => content'[n] = content[n]
      /\ content'[sd] = IF c = "prepare" /\ content[sd] = "missing" THEN "plain"
                        ELSE content[sd]
  BY DEF ReadKube, At, TypeOK, ConfigMap, Content
<1>2. /\ cmd' \in [Command -> Process]
      /\ cmd'[c].pc \in {"failed", "updateKube", "done"}
      /\ cmd'[c].pc = "done" => c = "cleanup" /\ content'[sd] = "plain"
      /\ cmd'[c].cm = cmd[c].cm /\ cmd'[c].todo = cmd[c].todo
      /\ \A o \in Command : o # c => cmd'[o] = cmd[o]
  <2> DEFINE pc == CASE content'[sd] = "missing" -> "failed"
                     [] c = "cleanup" /\ HasNothingToRestore(content'[sd]) -> "done"
                     [] OTHER -> "updateKube"
  <2>1. /\ pc \in {"failed", "updateKube", "done"}
        /\ pc = "done" => c = "cleanup" /\ content'[sd] = "plain"
    BY DEF HasNothingToRestore
  <2>2. cmd' = [cmd EXCEPT ![c].current = @ \cup {"kubedns", sd}, ![c].pc = pc]
    BY DEF ReadKube
  <2> HIDE DEF pc
  <2>3. pc \in Place /\ {"kubedns", sd} \subseteq ConfigMap \cup Deployment
    BY <2>1 DEF Place, ConfigMap, Deployment
  <2> QED
    BY <2>1, <2>2, <2>3 DEF TypeOK, Process
<1>3. TypeOK'
  BY <1>1, <1>2 DEF TypeOK, budgetVars
<1>4. provider = "KubeDNS"
  BY <1>1 DEF PlacesOK, TypeOK, Provider
<1>5. PlacesOK'
  BY <1>1, <1>2, <1>4 DEF PlacesOK, Command, IsRunning
<1>6. OneMapUsed' /\ NoStubDomainsYet'
  BY <1>1, <1>2, <1>4 DEF OneMapUsed, NoStubDomainsYet, ConfigMap
<1>7. CASE c = "prepare"
  <2>1. last # "cleanup"
    BY <1>1, <1>7 DEF PlacesOK, IsRunning, Command
  <2>2. PrepareProgress'
    BY <1>1, <1>2, <1>7 DEF PrepareProgress
  <2> QED
    BY <1>1, <1>3, <1>5, <1>6, <2>1, <2>2 DEF CleanupProgress
<1>8. CASE c = "cleanup"
  <2>1. last # "prepare"
    BY <1>1, <1>8 DEF PlacesOK, IsRunning, Command
  <2>2. CleanupProgress'
    BY <1>1, <1>2, <1>4, <1>6, <1>8 DEF CleanupProgress, NoStubDomainsYet, ForMesh
  <2> QED
    BY <1>1, <1>3, <1>5, <1>6, <2>1, <2>2 DEF PrepareProgress
<1> QED
  BY <1>7, <1>8 DEF Command

\* The update of the stub domains.
LEMMA UpdateKubeKeepsIInv ==
    ASSUME IInv, NEW c \in Command, UpdateKube(c)
    PROVE  IInv'
<1> USE DEF IInv
<1> DEFINE sd == "stubDomains"
           pc == IF c = "prepare" THEN "read" ELSE "restartKube"
           value == IF c = "prepare" THEN "patched" ELSE "other"
<1>1. CASE Refused(c, sd)
  BY <1>1, RefusedKeepsIInv
<1>2. ASSUME Accepted(c, sd, pc), content' = [content EXCEPT ![sd] = value],
             UNCHANGED rollout
      PROVE  IInv'
  <2>1. /\ cmd' \in [Command -> Process]
        /\ cmd'[c].pc = pc
        /\ \A o \in Command : o # c => cmd'[o].pc = cmd[o].pc
        /\ \A o \in Command : cmd'[o].cm = cmd[o].cm /\ cmd'[o].todo = cmd[o].todo
    BY <1>2, AcceptedEffect DEF Place
  <2>2. /\ cmd[c].pc = "updateKube"
        /\ UNCHANGED <<provider, running, rollout, shadows, created, last, unsteady, budgetVars>>
    BY <1>2 DEF UpdateKube, At, Accepted
  <2>3. /\ content' \in [ConfigMap -> Content]
        /\ content'[sd] = value
        /\ \A n \in ConfigMap : n # sd => content'[n] = content[n]
    BY <1>2 DEF TypeOK, ConfigMap, Content
  <2>4. TypeOK'
    BY <2>1, <2>2, <2>3 DEF TypeOK, budgetVars
  <2>5. provider = "KubeDNS"
    BY <2>2 DEF PlacesOK, TypeOK, Provider
  <2>6. PlacesOK'
    BY <2>1, <2>2, <2>5 DEF PlacesOK, Command, IsRunning
  <2>7. OneMapUsed' /\ NoStubDomainsYet'
    <3>1. OneMapUsed'
      BY <2>1, <2>2, <2>3, <2>5 DEF OneMapUsed, ConfigMap
    <3>2. NoStubDomainsYet'
      BY <2>3 DEF NoStubDomainsYet
    <3> QED
      BY <3>1, <3>2
  <2>8. CASE c = "prepare"
    <3>1. last # "cleanup"
      BY <2>2, <2>8 DEF PlacesOK, IsRunning, Command
    <3>2. PrepareProgress'
      BY <2>1, <2>2, <2>3, <2>8 DEF PrepareProgress
    <3> QED
      BY <2>2, <2>4, <2>6, <2>7, <3>1, <3>2 DEF CleanupProgress
  <2>9. CASE c = "cleanup"
    <3>1. last # "prepare"
      BY <2>2, <2>9 DEF PlacesOK, IsRunning, Command
    <3>2. CleanupProgress'
      BY <2>1, <2>2, <2>3, <2>5, <2>9 DEF CleanupProgress, ForMesh
    <3> QED
      BY <2>2, <2>4, <2>6, <2>7, <3>1, <3>2 DEF PrepareProgress
  <2> QED
    BY <2>8, <2>9 DEF Command
<1> QED
  BY <1>1, <1>2 DEF UpdateKube, Write, Command

\* The last call under KubeDNS.
LEMMA RestartKubeKeepsIInv ==
    ASSUME IInv, NEW c \in Command, RestartKube(c)
    PROVE  IInv'
<1> USE DEF IInv
<1>1. CASE Refused(c, "kubedns")
  BY <1>1, RefusedKeepsIInv
<1>2. ASSUME Accepted(c, "kubedns", "done"), rollout' = rollout \cup {"kubedns"},
             UNCHANGED content
      PROVE  IInv'
  <2>1. /\ cmd' \in [Command -> Process]
        /\ cmd'[c].pc = "done"
        /\ \A o \in Command : o # c => cmd'[o].pc = cmd[o].pc
        /\ \A o \in Command : cmd'[o].cm = cmd[o].cm /\ cmd'[o].todo = cmd[o].todo
    BY <1>2, AcceptedEffect DEF Place
  <2>2. /\ cmd[c].pc = "restartKube"
        /\ UNCHANGED <<provider, content, running, shadows, created, last, unsteady, budgetVars>>
    BY <1>2 DEF RestartKube, At, Accepted
  <2>3. TypeOK'
    BY <1>2, <2>1, <2>2 DEF TypeOK, budgetVars, Deployment
  <2>4. provider = "KubeDNS"
    BY <2>2 DEF PlacesOK, TypeOK, Provider
  <2>5. PlacesOK'
    BY <2>1, <2>2, <2>4 DEF PlacesOK, Command, IsRunning
  <2>6. OneMapUsed' /\ NoStubDomainsYet'
    BY <2>1, <2>2, <2>4 DEF OneMapUsed, NoStubDomainsYet
  <2>7. CASE c = "prepare"
    <3>1. last # "cleanup"
      BY <2>2, <2>7 DEF PlacesOK, IsRunning, Command
    <3>2. PrepareProgress'
      BY <2>1, <2>2, <2>7 DEF PrepareProgress
    <3> QED
      BY <2>2, <2>3, <2>5, <2>6, <3>1, <3>2 DEF CleanupProgress
  <2>8. CASE c = "cleanup"
    <3>1. last # "prepare"
      BY <2>2, <2>8 DEF PlacesOK, IsRunning, Command
    <3>2. CleanupProgress'
      BY <1>2, <2>1, <2>2, <2>4, <2>8 DEF CleanupProgress
    <3> QED
      BY <2>2, <2>3, <2>5, <2>6, <3>1, <3>2 DEF PrepareProgress
  <2> QED
    BY <2>7, <2>8 DEF Command
<1> QED
  BY <1>1, <1>2 DEF RestartKube, RestartPods

--------------------------------------------------------------------------------
(* The shadow services, and others                                          *)

\* What is left to delete covers what was there when it was listed.
LEMMA DeleteShadowKeepsIInv ==
    ASSUME IInv, DeleteShadow
    PROVE  IInv'
<1> USE DEF IInv
<1> DEFINE cl == "cleanup"
<1>1. /\ cmd[cl].pc = "shadows"
      /\ UNCHANGED <<provider, content, running, rollout, last, unsteady, budgetVars>>
  BY DEF DeleteShadow, At
<1>2. /\ cmd' \in [Command -> Process]
      /\ cmd'["prepare"] = cmd["prepare"]
      /\ shadows' \subseteq shadows /\ created' \subseteq shadows'
      /\ \/ cmd'[cl].pc = "failed"
         \/ /\ cmd'[cl].pc = "shadows"
            /\ shadows \subseteq cmd[cl].todo \cup created
                  => shadows' \subseteq cmd'[cl].todo \cup created'
  <2>1. PICK s \in cmd[cl].todo :
            \/ /\ shadows' = shadows \ {s} /\ created' = created \ {s}
               /\ cmd' = [cmd EXCEPT ![cl].todo = @ \ {s}]
            \/ /\ EndFailed(cl)
               /\ UNCHANGED <<shadows, created>>
    BY DEF DeleteShadow
  <2>2. CASE EndFailed(cl) /\ UNCHANGED <<shadows, created>>
    BY <2>2 DEF TypeOK, EndFailed, NewProcess, Process, Command, Place, ConfigMap
  <2>3. CASE /\ shadows' = shadows \ {s} /\ created' = created \ {s}
             /\ cmd' = [cmd EXCEPT ![cl].todo = @ \ {s}]
    BY <2>3, <1>1 DEF TypeOK, Process, Command
  <2> QED
    BY <2>1, <2>2, <2>3
<1>3. TypeOK'
  BY <1>1, <1>2 DEF TypeOK, budgetVars
<1>4. PlacesOK'
  BY <1>1, <1>2 DEF PlacesOK, Command, IsRunning
<1>5. OneMapUsed' /\ NoStubDomainsYet'
  BY <1>1, <1>2 DEF OneMapUsed, NoStubDomainsYet, CoreMap, Command
<1>6. CleanupProgress' /\ PrepareProgress'
  BY <1>1, <1>2 DEF CleanupProgress, PrepareProgress
<1> QED
  BY <1>3, <1>4, <1>5, <1>6

\* With nothing left to delete there are new shadow services only.
LEMMA ShadowsDeletedKeepsIInv ==
    ASSUME IInv, ShadowsDeleted
    PROVE  IInv'
<1> USE DEF IInv
<1> DEFINE cl == "cleanup"
<1>1. /\ cmd[cl].pc = "shadows" /\ cmd[cl].todo = {}
      /\ UNCHANGED <<clusterVars, last, unsteady, budgetVars>>
  BY DEF ShadowsDeleted, At
<1>2. /\ cmd' \in [Command -> Process]
      /\ cmd'["prepare"] = cmd["prepare"]
      /\ cmd'[cl].pc = IF provider = "CoreDNS" THEN "read" ELSE "readKube"
  BY DEF ShadowsDeleted, GoTo, TypeOK, Process, Command, Place
<1>3. TypeOK'
  BY <1>1, <1>2 DEF TypeOK, clusterVars, budgetVars
<1>4. PlacesOK'
  BY <1>1, <1>2 DEF PlacesOK, Command, IsRunning, clusterVars, TypeOK, Provider
<1>5. OneMapUsed' /\ NoStubDomainsYet'
  BY <1>1, <1>2 DEF OneMapUsed, NoStubDomainsYet, CoreMap, Command, clusterVars
<1>6. CleanupProgress' /\ PrepareProgress'
  <2>1. shadows \subseteq created => shadows = created
    BY DEF TypeOK
  <2> QED
    BY <1>1, <1>2, <2>1 DEF CleanupProgress, PrepareProgress, clusterVars
<1> QED
  BY <1>3, <1>4, <1>5, <1>6

\* Restarted pods have read what is in the maps by then.
LEMMA PodsStartKeepsIInv ==
    ASSUME IInv, NEW d \in Deployment, PodsStart(d)
    PROVE  IInv'
<1> USE DEF IInv
<1>1. /\ running' = [n \in ConfigMap |-> IF n \in Mounts(d) THEN content[n] ELSE running[n]]
      /\ rollout' = rollout \ {d}
      /\ UNCHANGED <<provider, content, shadows, created, cmd, last, unsteady, budgetVars>>
  BY DEF PodsStart
<1>2. TypeOK'
  BY <1>1 DEF TypeOK, budgetVars
<1>3. PlacesOK' /\ OneMapUsed' /\ PrepareProgress'
  BY <1>1 DEF PlacesOK, OneMapUsed, PrepareProgress, IsRunning, CoreMap
<1>4. NoStubDomainsYet'
  BY <1>1 DEF NoStubDomainsYet, ConfigMap, ForMesh
<1>5. CleanupProgress'
  <2>1. CASE d = "coredns"
    BY <1>1, <2>1 DEF CleanupProgress, Mounts, CoreMaps, ConfigMap
  <2>2. CASE d = "kubedns"
    BY <1>1, <2>2 DEF CleanupProgress, Mounts, CoreMaps, ConfigMap
  <2>3. CASE d = "meshdns"
    BY <1>1, <2>3 DEF CleanupProgress, Mounts, CoreMaps, ConfigMap
  <2> QED
    BY <2>1, <2>2, <2>3 DEF Deployment
<1> QED
  BY <1>2, <1>3, <1>4, <1>5

\* Whether a copy is up to date matters to the API server only.
LEMMA ObjectChangesKeepsIInv ==
    ASSUME IInv, NEW object \in ConfigMap \cup Deployment, ObjectChanges(object)
    PROVE  IInv'
<1> USE DEF IInv
<1>1. /\ cmd' \in [Command -> Process]
      /\ \A c \in Command : /\ cmd'[c].pc = cmd[c].pc
                            /\ cmd'[c].cm = cmd[c].cm
                            /\ cmd'[c].todo = cmd[c].todo
      /\ UNCHANGED <<clusterVars, last, unsteady, budgetVars>>
  BY DEF ObjectChanges, TypeOK, Process
<1>2. TypeOK'
  BY <1>1 DEF TypeOK, clusterVars, budgetVars
<1>3. PlacesOK'
  BY <1>1 DEF PlacesOK, IsRunning, clusterVars, Command
<1>4. OneMapUsed' /\ NoStubDomainsYet'
  BY <1>1 DEF OneMapUsed, NoStubDomainsYet, CoreMap, clusterVars
<1>5. CleanupProgress' /\ PrepareProgress'
  BY <1>1 DEF CleanupProgress, PrepareProgress, clusterVars, Command
<1> QED
  BY <1>2, <1>3, <1>4, <1>5

\* A shadow service that the controller creates is a new one.
LEMMA ControllerCreatesKeepsIInv ==
    ASSUME IInv, NEW s \in Shadow, ControllerCreates(s)
    PROVE  IInv'
<1> USE DEF IInv
<1>1. /\ shadows' = shadows \cup {s} /\ created' = created \cup {s}
      /\ UNCHANGED <<provider, content, running, rollout, cmd, last, unsteady, budgetVars>>
  BY DEF ControllerCreates
<1>2. TypeOK'
  BY <1>1 DEF TypeOK, budgetVars
<1>3. PlacesOK' /\ OneMapUsed' /\ NoStubDomainsYet' /\ PrepareProgress'
  BY <1>1 DEF PlacesOK, OneMapUsed, NoStubDomainsYet, PrepareProgress, IsRunning, CoreMap
<1>4. CleanupProgress'
  BY <1>1 DEF CleanupProgress
<1> QED
  BY <1>2, <1>3, <1>4

\* One that it deletes is gone.
LEMMA ControllerDeletesKeepsIInv ==
    ASSUME IInv, NEW s \in Shadow, ControllerDeletes(s)
    PROVE  IInv'
<1> USE DEF IInv
<1>1. /\ shadows' = shadows \ {s} /\ created' = created \ {s}
      /\ UNCHANGED <<provider, content, running, rollout, cmd, last, unsteady, budgetVars>>
  BY DEF ControllerDeletes
<1>2. TypeOK'
  BY <1>1 DEF TypeOK, budgetVars
<1>3. PlacesOK' /\ OneMapUsed' /\ NoStubDomainsYet' /\ PrepareProgress'
  BY <1>1 DEF PlacesOK, OneMapUsed, NoStubDomainsYet, PrepareProgress, IsRunning, CoreMap
<1>4. CleanupProgress'
  BY <1>1 DEF CleanupProgress
<1> QED
  BY <1>2, <1>3, <1>4

\* An unsteady coredns-custom is excluded wherever the invariant speaks of the two maps.
LEMMA CustomAppearsKeepsIInv ==
    ASSUME IInv, CustomAppears
    PROVE  IInv'
<1> USE DEF IInv
<1>1. /\ unsteady' = TRUE
      /\ content["custom"] = "missing"
      /\ content' \in [ConfigMap -> Content]
      /\ \A n \in ConfigMap : n # "custom" => content'[n] = content[n]
      /\ UNCHANGED <<provider, running, rollout, shadows, created, cmd, last, budgetVars>>
  BY DEF CustomAppears, TypeOK, ConfigMap, Content
<1>2. TypeOK'
  BY <1>1 DEF TypeOK, budgetVars
<1>3. PlacesOK' /\ OneMapUsed' /\ NoStubDomainsYet'
  BY <1>1 DEF PlacesOK, OneMapUsed, NoStubDomainsYet, IsRunning, ConfigMap
<1>4. cmd["prepare"].cm \in ConfigMap
  BY DEF TypeOK, Process, Command
<1>5. CleanupProgress' /\ PrepareProgress'
  BY <1>1, <1>4 DEF CleanupProgress, PrepareProgress, ConfigMap
<1> QED
  BY <1>2, <1>3, <1>5

--------------------------------------------------------------------------------
(* Theorems                                                                 *)

\* Every step, and every step of somebody else, preserves the invariant.
LEMMA IInvPreserved == IInv /\ [Next]_vars => IInv'
<1> SUFFICES ASSUME IInv, [Next]_vars PROVE IInv'
  OBVIOUS
<1>1. CASE UNCHANGED vars
  BY <1>1
  DEF IInv, TypeOK, PlacesOK, OneMapUsed, NoStubDomainsYet, CleanupProgress,
      PrepareProgress, vars, clusterVars, budgetVars, IsRunning, CoreMap
<1>2. CASE Next
  BY <1>2, StartKeepsIInv, FailKeepsIInv, ReadCoreKeepsIInv, UpdateCoreKeepsIInv,
     RestartCoreKeepsIInv, ReadKubeKeepsIInv, UpdateKubeKeepsIInv, RestartKubeKeepsIInv,
     DeleteShadowKeepsIInv, ShadowsDeletedKeepsIInv, PodsStartKeepsIInv,
     ObjectChangesKeepsIInv, ControllerCreatesKeepsIInv, ControllerDeletesKeepsIInv,
     CustomAppearsKeepsIInv
  DEF Next
<1> QED
  BY <1>1, <1>2

\* The invariant holds in every reachable state.
LEMMA IInvAlways == Spec => []IInv
  BY IInvInitially, IInvPreserved, PTL DEF Spec

\* The processes of prepare and cleanup and what they write are what the model says.
THEOREM DNSTypeOK == Spec => []TypeOK
<1>1. IInv => TypeOK
  BY DEF IInv
<1> QED
  BY IInvAlways, <1>1, PTL

\* A cleanup that succeeds has deleted every shadow service it has listed (cleanup.go:33),
\* so that only those are left that a running controller has created since, and has undone
\* the configuration of the DNS server (cleanup.go:51, and RestoreCoreDNS and RestoreKubeDNS
\* in dns.go), whatever failed before it and whatever it raced with, unless coredns-custom
\* came or went for one of the commands.
THEOREM CleanupUndoesTheInstallation == Spec => []CleanupRestores
<1>1. IInv => CleanupRestores
  BY DEF IInv, TypeOK, Provider, CleanupProgress, CleanupRestores, CleanupSucceeded, Restored,
         ServerMaps, Mounts, CoreMaps, At
<1> QED
  BY IInvAlways, <1>1, PTL

\* A prepare that succeeds has written the block, and under KubeDNS the stub domain
\* (ConfigureCoreDNS and ConfigureKubeDNS in dns.go), also over an earlier release.
THEOREM PrepareIsComplete == Spec => []PrepareConfigures
<1>1. IInv => PrepareConfigures
  BY DEF IInv, PrepareProgress, PrepareConfigures, At
<1> QED
  BY IInvAlways, <1>1, PTL
================================================================================
