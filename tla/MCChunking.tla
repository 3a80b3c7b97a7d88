----------------------------- MODULE MCChunking -----------------------------
EXTENDS Chunking

\* Documents of up to five paragraphs: small, as large as a chunk, cut in two
\* and in three.
MCDocument == BoundedSeq({1, 2, 4, 9}, 5)
=============================================================================
