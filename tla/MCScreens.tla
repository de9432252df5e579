----------------------------- MODULE MCScreens -----------------------------
EXTENDS ScreensProps
=============================================================================
