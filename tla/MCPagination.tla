---------------------------- MODULE MCPagination ----------------------------
EXTENDS Pagination
=============================================================================
