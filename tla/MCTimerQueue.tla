---------------------------- MODULE MCTimerQueue -----------------------------
EXTENDS TimerQueue, TLC

CONSTANTS once1, once2, often
MCTimers == {once1, once2, often}
MCInterval == once1 :> 0 @@ once2 :> 0 @@ often :> 2
=============================================================================
