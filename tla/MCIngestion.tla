------------------------------ MODULE MCIngestion ------------------------------
EXTENDS Ingestion

MCBlocks ==
  LET Event(tx) == [tx |-> tx, name |-> "a"] IN <<<<Event("t1")>>, <<Event("t2")>>>>
=============================================================================
