---------------------------- MODULE MCHostnameCache ----------------------------
(***************************************************************************)
(* Instances of HostnameCache.  Two names that differ in case, and the     *)
(* same name with a port.                                                  *)
(***************************************************************************)
EXTENDS HostnameCache, TLC

MCHost == {"www", "WWW"}

MCNorm == [h \in MCHost |-> "www"]

MCNoPort == [h \in MCHost |-> h]

MCPortHost == {"www", "web", "www:80", "web:80"}

MCPortName == "www" :> "www" @@ "web" :> "web" @@ "www:80" :> "www" @@ "web:80" :> "web"
=============================================================================
