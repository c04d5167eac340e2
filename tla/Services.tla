------------------------------ MODULE Services ------------------------------
(***************************************************************************)
(* The components a sidecar uses besides its stores and brokers, checked   *)
(* together: a behaviour is of one of them, which part names.              *)
(***************************************************************************)
EXTENDS MDNSResolver, ConsulResolver, Migrations, Configuration

VARIABLE part

servicesVars == <<part, vars, consulVars, migrationVars, configurationVars>>

\* The parts that are not looked at are in one of their initial states.
ServicesInit ==
  /\ part \in {"mdns", "consul", "migrations", "configuration"}
  /\ Init /\ ConsulInit /\ MigrationInit /\ ConfigurationInit
  /\ part # "mdns" => live = {}
  /\ part # "migrations" => database = (CHOOSE d \in Databases : TRUE) /\ schema = {}
  /\ part # "configuration" => provider = (CHOOSE p \in Providers : TRUE)

ServicesNext ==
  \/ /\ part = "mdns" /\ Next
     /\ UNCHANGED <<part, consulVars, migrationVars, configurationVars>>
  \/ /\ part = "consul" /\ ConsulNext
     /\ UNCHANGED <<part, vars, migrationVars, configurationVars>>
  \/ /\ part = "migrations" /\ MigrationNext
     /\ UNCHANGED <<part, vars, consulVars, configurationVars>>
  \/ /\ part = "configuration" /\ ConfigurationNext
     /\ UNCHANGED <<part, vars, consulVars, migrationVars>>

ServicesSpec ==
  /\ ServicesInit /\ [][ServicesNext]_servicesVars
  /\ Fairness /\ ConsulFairness /\ MigrationFairness /\ ConfigurationFairness

\* Both resolvers that work in the background answer in the end, and what they
\* keep catches up with what they were told.
ResolversGetOn == ResolveReturns /\ RegistryCatchesUp
=============================================================================
