--------------------------- MODULE MCUploadWidget ---------------------------
EXTENDS UploadCard

\* A 1 KiB file: 1019 bytes is 99.51% (rounds to 100), 1018 is 99.41%.
MCTotal == 1024

MCLoads == {0, 256, 512, 1018, 1019, 1024}

\* Two failed attempts and their retries.
MCMaxAttempts == 3

=============================================================================
