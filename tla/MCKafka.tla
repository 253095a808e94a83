------------------------------ MODULE MCKafka ------------------------------
EXTENDS Kafka
=============================================================================
