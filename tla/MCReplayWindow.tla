--------------------------- MODULE MCReplayWindow ---------------------------
EXTENDS ReplayWindow

CONSTANT SeqBacktracks, TimeBacktracks

Windows == SeqBacktracks \X TimeBacktracks
=============================================================================
