--------------------------- MODULE MCBootRecovery ---------------------------
\* Safe startup with one eager store, two lazy stores and the SD fonts.
EXTENDS BootRecovery
MCOrder == <<"Settings", "RecentBooks", "Opds", "SdFonts">>
=============================================================================
