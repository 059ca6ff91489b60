------------------------------- MODULE MCLabBench -------------------------------
(***************************************************************************)
(* Constants for model checking LabBench: one Cardputer, an experiment     *)
(* that can be planned for a module that asks for a physical confirmation  *)
(* or one that asks for none, another for the first of these or one that   *)
(* has no executor, and manifests that may not be registered.              *)
(***************************************************************************)
EXTENDS LabBench, TLC

CONSTANTS org1, ana, card, scope1, e1, e2, spectra, soc, beacon, target,
          q1, spectraExec, socExec, beaconExec

Module(m, exec, risk, physical) ==
  [module |-> m, executor |-> exec, risk |-> risk, cancel |-> TRUE, edge |-> TRUE,
   profile |-> "lab", authorization |-> "scope", roles |-> {"researcher"},
   confirmed |-> physical, physical |-> physical, maxDuration |-> 2]
MCModules == << Module(spectra, spectraExec, "R1", TRUE),
                Module(spectra, socExec, "R1", FALSE),
                Module(beacon, beaconExec, "R3", FALSE),
                Module(soc, socExec, "R0", FALSE),
                Module(beacon, beaconExec, "R0", FALSE) >>
Propose(exp, module, aim, duration) ==
  [exp |-> exp, module |-> module, target |-> aim, duration |-> duration]
MCProposal == { Propose(e1, "spectra", "controlled", 1), Propose(e1, "soc", "controlled", 1),
                Propose(e2, "spectra", "controlled", 1), Propose(e2, "beacon", "controlled", 1),
                Propose(e2, "spectra", "controlled", 3), Propose(e2, "soc", "missing", 1) }
MCModuleAlias == ("spectra" :> spectra) @@ ("soc" :> soc) @@ ("beacon" :> beacon)
MCTargetAlias == "controlled" :> target
MCOperator == { [id |-> ana, org |-> org1, roles |-> {"researcher"}] }
MCSource == { [id |-> card, org |-> org1, trusted |-> TRUE, capabilities |-> {}] }
MCScope == { [id |-> scope1, org |-> org1, tools |-> {spectra, soc, beacon},
              targets |-> {target}, until |-> 3] }
MCOperatorOf == card :> [id |-> ana, org |-> org1]
=============================================================================
