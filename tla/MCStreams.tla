---- MODULE MCStreams ----
EXTENDS Streams
====
