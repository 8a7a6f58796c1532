------------------------- MODULE MCBrowserDownload -------------------------
EXTENDS BrowserDownload
=============================================================================
