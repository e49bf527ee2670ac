-------------------------- MODULE InterfaceSelection --------------------------
(***************************************************************************)
(* Which interfaces the user is offered, and in which order: what the      *)
(* platform says of an adapter, its kind, the filter, and the ranking.     *)
(* Names and descriptions count only by the pattern they match first.      *)
(***************************************************************************)
EXTENDS Integers, Sequences, SequencesExt

\* What sysfs and os.networkInterfaces() say.
LinuxAdapter ==
  [os : {"linux"},
   name : {"loopback", "wifi", "virtual", "other"},  \* what classifyByName makes of it
   wireless : BOOLEAN, device : BOOLEAN,
   operstate : {"up", "down", "lowerlayerdown", "unknown"},
   addressed : BOOLEAN]

\* What Get-NetAdapter says.
WindowsAdapter ==
  [os : {"windows"},
   description : {"wifi", "loopback", "virtual", "other"},
   media : {"802.3", "802.11", ""},
   virtual : BOOLEAN,
   status : {"Up", "Disconnected", "Disabled", "Not Present"},
   addressed : BOOLEAN]

\* #describe
describe(a) ==
  LET kind == IF ~a.wireless /\ a.name \notin {"loopback", "virtual"} /\ a.device
              THEN "ethernet" ELSE a.name
  IN [adapter |-> a,
      linkState |-> CASE a.operstate = "up" -> "up"
                      [] a.operstate \in {"down", "lowerlayerdown"} -> "down"
                      [] OTHER -> "unknown",
      kind |-> kind,
      physical |-> a.device /\ kind \notin {"virtual", "loopback"},
      addressed |-> a.addressed]

\* #toInfo.  The description of a loopback adapter also matches a pattern of
\* the virtual ones.
toInfo(a) ==
  LET loopback == a.description = "loopback"
      virtual == a.virtual \/ a.description \in {"virtual", "loopback"} \/ a.media = ""
  IN [adapter |-> a,
      linkState |-> CASE a.status = "Up" -> "up"
                      [] a.status \in {"Disconnected", "Disabled"} -> "down"
                      [] OTHER -> "unknown",
      kind |-> CASE loopback -> "loopback"
                 [] ~loopback /\ (a.media = "802.11" \/ a.description = "wifi") -> "wifi"
                 [] ~loopback /\ a.media # "802.11" /\ a.description # "wifi" /\ virtual -> "virtual"
                 [] OTHER -> "ethernet",
      physical |-> ~virtual /\ ~loopback,
      addressed |-> a.addressed]

enumerate(adapters) ==
  [i \in DOMAIN adapters |->
     IF adapters[i].os = "linux" THEN describe(adapters[i]) ELSE toInfo(adapters[i])]

Points(condition, n) == IF condition THEN n ELSE 0

\* Mutant: the weights of the link and of an address are swapped.
scoreSwapped(info) ==
  Points(info.linkState = "up", 1) + Points(info.physical, 2)
  + Points(info.kind = "ethernet", 2) + Points(info.addressed, 4)
score(info) ==
  Points(info.linkState = "up", 4) + Points(info.physical, 2)
  + Points(info.kind = "ethernet", 2) + Points(info.addressed, 1)

\* The n-th adapter is the one that n - 1 come before; those of equal score keep
\* their order.
selectEthernetInterfaces(infos, all) ==
  LET shown == {i \in DOMAIN infos : all \/ infos[i].kind \notin {"loopback", "wifi", "virtual"}}
      Before(i, j) == score(infos[i]) > score(infos[j])
                      \/ (score(infos[i]) = score(infos[j]) /\ i < j)
      place(i) == 1 + Cardinality({j \in shown : Before(j, i)})
  IN [n \in 1..Cardinality(shown) |-> infos[CHOOSE i \in shown : place(i) = n]]

\* The sense of the ranking: a cable is plugged into it.
Connected(a) ==
  IF a.os = "linux"
  THEN a.device /\ ~a.wireless /\ a.name \notin {"loopback", "virtual"} /\ a.operstate = "up"
  ELSE a.media = "802.3" /\ ~a.virtual /\ a.description = "other" /\ a.status = "Up"
=============================================================================
