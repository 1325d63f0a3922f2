-------------------------- MODULE MCTranscriptCapture --------------------------
EXTENDS TranscriptCapture

CONSTANTS a

\* A batch that repeats a reference and has an item without any; handing it in
\* twice is a retry.
MCBatches == {<<a, NoRef, a>>}
=============================================================================
