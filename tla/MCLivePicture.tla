--------------------------- MODULE MCLivePicture ---------------------------
EXTENDS LivePictureProps
=============================================================================
