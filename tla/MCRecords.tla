----------------------------- MODULE MCRecords -----------------------------
(* The components that share no variable with each other or with the rest, each run by itself   *)
(* from its start: their calls read what no other call changes (pages, the documents of         *)
(* complete batches, versions of the scheme), so that no step of one disables or alters a step  *)
(* of another.                                                                                  *)
EXTENDS MCPages, MCDocuments, MCDataset, MCMatching, MCTaxonomy

RecordsInit == PageInit /\ DocumentInit /\ DatasetInit /\ MatchingInit /\ TaxonomyInit

RecordsNext ==
  \/ /\ DocumentInit /\ DatasetInit /\ MatchingInit /\ TaxonomyInit
     /\ PageNext
     /\ UNCHANGED <<documentVars, datasetVars, matchingVars, taxonomyVars>>
  \/ /\ PageInit /\ DatasetInit /\ MatchingInit /\ TaxonomyInit
     /\ DocumentNext
     /\ UNCHANGED <<lookupVars, datasetVars, matchingVars, taxonomyVars>>
  \/ /\ PageInit /\ DocumentInit /\ MatchingInit /\ TaxonomyInit
     /\ DatasetNext
     /\ UNCHANGED <<lookupVars, documentVars, matchingVars, taxonomyVars>>
  \/ /\ PageInit /\ DocumentInit /\ DatasetInit /\ TaxonomyInit
     /\ MatchingNext
     /\ UNCHANGED <<lookupVars, documentVars, datasetVars, taxonomyVars>>
  \/ /\ PageInit /\ DocumentInit /\ DatasetInit /\ MatchingInit
     /\ TaxonomyNext
     /\ UNCHANGED <<lookupVars, documentVars, datasetVars, matchingVars>>

=============================================================================
