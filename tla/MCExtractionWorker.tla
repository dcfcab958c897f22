------------------------- MODULE MCExtractionWorker -------------------------
\* ExtractionWorker for TLC: more pages than the queue's limit.
EXTENDS ExtractionWorker
=============================================================================
