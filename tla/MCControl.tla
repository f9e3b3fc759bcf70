---- MODULE MCControl ----
EXTENDS Control
====
