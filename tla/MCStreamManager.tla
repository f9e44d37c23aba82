--------------------------- MODULE MCStreamManager ---------------------------
(* StreamManager with one event.  MCUses has every kind of operation in the  *)
(* default stream or in two streams; the event is recorded in one stream.    *)
EXTENDS StreamManager

CONSTANT e1

MCUses == [kind \in Kind |-> CASE kind = "memcpy" -> {0, 1}
                              [] kind = "kernel" -> {0, 1, 2}
                              [] kind = "event" -> {2}
                              [] kind = "wait_event" -> {0, 1}]

ASSUME OneRecorder == RecordedInOneStream
=============================================================================
