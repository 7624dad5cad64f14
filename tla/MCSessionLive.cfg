CONSTANT Setups <- LiveSetups
SPECIFICATION FairSpec
PROPERTIES ClosingStreamCloses TerminationCompletes
CHECK_DEADLOCK FALSE
