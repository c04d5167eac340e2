------------------------------ MODULE Outbound ------------------------------
(***************************************************************************)
(* What a sidecar does with services outside, besides single requests to   *)
(* its state stores: it registers itself and resolves others, publishes to *)
(* brokers, calls object stores, reads many keys of a state store, and     *)
(* starts and stops its components.  A behaviour is of one of these, which *)
(* part names.                                                             *)
(***************************************************************************)
EXTENDS SqliteResolver, ObjectStores, Publications, KeyReads, Lifecycles

VARIABLE part

outboundVars == <<part, vars, objectVars, publicationVars, keyReadVars, lifeVars>>

\* The parts that are not looked at are in one of their initial states.
OutboundInit ==
  /\ part \in {"registry", "objects", "publications", "reads", "lifecycles"}
  /\ part # "registry" => now = 0 /\ cleanup = TRUE
  /\ part # "objects" => binding = CHOOSE b \in Bindings : TRUE
  /\ part # "publications" => sender = "kinesis"
  /\ part # "reads" => keyStore = "mongodb" /\ pageSize = 1 /\ table = NoRows
  /\ part # "lifecycles" => component = "etcd"
  /\ Init /\ ObjectInit /\ PublicationInit /\ KeyReadsInit /\ LifeInit

OutboundNext ==
  \/ /\ part = "registry" /\ Next
     /\ UNCHANGED <<part, objectVars, publicationVars, keyReadVars, lifeVars>>
  \/ /\ part = "objects" /\ ObjectNext
     /\ UNCHANGED <<part, vars, publicationVars, keyReadVars, lifeVars>>
  \/ /\ part = "publications" /\ PublicationNext
     /\ UNCHANGED <<part, vars, objectVars, keyReadVars, lifeVars>>
  \/ /\ part = "reads" /\ KeyReadsNext
     /\ UNCHANGED <<part, vars, objectVars, publicationVars, lifeVars>>
  \/ /\ part = "lifecycles" /\ LifeNext
     /\ UNCHANGED <<part, vars, objectVars, publicationVars, keyReadVars>>

OutboundSpec == OutboundInit /\ [][OutboundNext]_outboundVars
=============================================================================
